---------------------------- MODULE Spec2Model ----------------------------
(***************************************************************************)
(* Rate-calculation engines of the shipping calculator: FedEx Ground       *)
(* (js/calculator.js), Amazon Shipping (js/amazon-calculator.js) and       *)
(* Yamato TA-Q-BIN (js/yamato-calculator.js).                              *)
(*                                                                         *)
(* Units.  The JavaScript works on floating point numbers; the model works *)
(* on exact values:                                                        *)
(*   - a length  x stands for x/10 cm (one millimetre), the resolution of  *)
(*     the item list that feeds the engines (L_cm = L_mm / 10);            *)
(*   - a weight  w stands for w/100 kg;                                    *)
(*   - pounds and dollars amounts that are not whole are rationals         *)
(*     <<n, d>> in lowest terms, d > 0; money is counted in cents;         *)
(*   - yen amounts are integers.                                           *)
(* NULL stands for null / undefined.                                       *)
(***************************************************************************)
EXTENDS Integers, Sequences, FiniteSets, TLC

\* call, ret: a function called and the value it returned;
\* loop: the locals of the running extension loop of amazonGetFuelPct and the
\* number of its iterations so far;
\* scenarios: the list kept in localStorage under STORAGE_KEY (js/storage.js);
\* url: the state in the s parameter of the page's URL;
\* pc: where the async UI.init of the page stands;
\* fedexData, yamatoData: the data of UI (fedexData and amazonData, assigned
\* together) and of YamatoUI (data);
\* state, itemIdCounter: the variables of that name of UI (js/ui.js);
\* invoked: the engine functions the page has called so far
VARIABLES call, ret, loop, scenarios, url, pc, fedexData, yamatoData, state,
          itemIdCounter, invoked

\* null, for the number-valued results that may be null (numbers are >= 0)
NULL == 0 - 1

\* null, for the object-valued variables (no object of the program is empty)
NoObj == <<>>

\* the variables of the page
page == <<pc, fedexData, yamatoData, state, itemIdCounter, invoked>>

\* what a whole-function step of an engine leaves alone beside its call
others == <<loop, scenarios, url, page>>

vars == <<call, ret, others>>

\* no page open, nothing stored
PageClosed ==
    /\ pc = "closed"
    /\ fedexData = NoObj
    /\ yamatoData = NoObj
    /\ state = NoObj
    /\ itemIdCounter = 0
    /\ invoked = {}

\* no loop running, no page, an empty store
OthersIdle == loop = <<>> /\ scenarios = <<>> /\ url = NoObj /\ PageClosed

(***************************************************************************)
(* Arithmetic helpers                                                      *)
(***************************************************************************)
\* Math.max(0, x) left out: the second argument as it is
MaxUnfloored(a, b) == b

Max(a, b) == IF a >= b THEN a ELSE b

Min(a, b) == IF a <= b THEN a ELSE b

\* Math.ceil(n / d) for n >= 0, d > 0
CeilDiv(n, d) == (n + d - 1) \div d

RECURSIVE Gcd(_, _)
Gcd(a, b) == IF b = 0 THEN a ELSE Gcd(b, a % b)

Abs(n) == IF n < 0 THEN 0 - n ELSE n

\* the rational n/d in lowest terms
Rat(n, d) ==
    LET g == Gcd(Abs(n), d)
    IN  IF n = 0 THEN <<0, 1>> ELSE <<n \div g, d \div g>>

RInt(n) == <<n, 1>>

RAdd(a, b) ==
    LET g == Gcd(a[2], b[2])
        l == (a[2] \div g) * b[2]
    IN  Rat(a[1] * (l \div a[2]) + b[1] * (l \div b[2]), l)

\* a * (n / d), cross-reduced before multiplying
RMulFrac(a, n, d) ==
    LET g1 == Gcd(Abs(a[1]), d)
        g2 == Gcd(Abs(n), a[2])
        h1 == IF g1 = 0 THEN 1 ELSE g1
        h2 == IF g2 = 0 THEN 1 ELSE g2
    IN  Rat((a[1] \div h1) * (n \div h2), (a[2] \div h2) * (d \div h1))

RFloor(a) == a[1] \div a[2]

RCeil(a) == CeilDiv(a[1], a[2])

\* a < b, compared on the integer parts first and then on the fractions
RLess(a, b) ==
    \/ RFloor(a) < RFloor(b)
    \/ /\ RFloor(a) = RFloor(b)
       /\ (a[1] % a[2]) * b[2] < (b[1] % b[2]) * a[2]

RMax(a, b) == IF RLess(a, b) THEN b ELSE a

\* a > k for an integer k
RGtInt(a, k) == a[1] > k * a[2]

\* Math.round(x) : nearest integer, halves upwards
RRound(a) == (2 * a[1] + a[2]) \div (2 * a[2])

\* Math.round(x * 100) / 100 of a dollar amount kept in cents: whole cents
Round2Cents(a) == RRound(a)

\* Math.round(x * 100) / 100 of a plain number: hundredths
Round2(a) == RRound(RMulFrac(a, 100, 1))

\* {} : an object without keys
EmptyObj == <<>>

\* key in obj
Has(obj, key) == key \in DOMAIN obj

\* obj[key] || {}
ObjOrEmpty(obj, key) == IF Has(obj, key) THEN obj[key] ELSE EmptyObj

\* obj[key] || 0
NumOrZero(obj, key) == IF Has(obj, key) THEN obj[key] ELSE 0

RECURSIVE SumSeq(_)
SumSeq(s) == IF s = <<>> THEN 0 ELSE Head(s) + SumSeq(Tail(s))

\* [a, b, c].sort((x, y) => y - x)
SortDesc3Unsorted(a, b, c) == <<a, b, c>>

SortDesc3(a, b, c) ==
    LET hi == Max(a, Max(b, c))
        lo == Min(a, Min(b, c))
    IN  <<hi, a + b + c - hi - lo, lo>>

(***************************************************************************)
(* FedEx Ground: js/calculator.js                                          *)
(***************************************************************************)
DIM_DIVISOR == 139

\* KG_TO_LB = 2.2046, as the numerator over 10000
KG_TO_LB == 22046

MAX_TABLE_LB == 150

cmToInchFloor(cm) == (cm * 10) \div 254

\* Math.ceil(cm / 2.54), cm given in 1/10 cm
cmToInchCeil(cm) == CeilDiv(cm * 10, 254)

\* kg * KG_TO_LB, kg given in 1/100 kg: pounds as a rational
kgToLb(kg) == Rat(kg * KG_TO_LB, 100 * 10000)

calcDimWeight(L_cm, W_cm, H_cm) ==
    Rat(cmToInchCeil(L_cm) * cmToInchCeil(W_cm) * cmToInchCeil(H_cm), DIM_DIVISOR)

\* surchargeData.amounts of the FedEx data set: zone -> type -> cents.  Zone 2
\* has AHS-Weight above AHS-Dim, zone 3 below, zone 4 equal, zone 5 has no
\* AHS-Weight entry, and larger zones have no entry at all.
FedexAmounts ==
    [z \in {"2", "3", "4", "5"} |->
        CASE z = "2" -> ("AHS-Dim" :> 2800 @@ "AHS-Weight" :> 4350 @@
                         "Oversize" :> 24000 @@ "Unauthorized" :> 155000)
          [] z = "3" -> ("AHS-Dim" :> 5000 @@ "AHS-Weight" :> 4500 @@
                         "Oversize" :> 26000 @@ "Unauthorized" :> 155000)
          [] z = "4" -> ("AHS-Dim" :> 4700 @@ "AHS-Weight" :> 4700 @@
                         "Oversize" :> 28500 @@ "Unauthorized" :> 155000)
          [] z = "5" -> ("AHS-Dim" :> 3000 @@ "Oversize" :> 30000)]

\* surchargeData of the FedEx data set (amounts, residential, das), in cents
FedexSurcharges ==
    [amounts |-> FedexAmounts,
     residential |-> [charge_per_pkg |-> 595],
     das |-> ("Base" :> [residential |-> 620, commercial |-> 430] @@
              "Extended" :> [residential |-> 830, commercial |-> 540])]

\* `Z${zone}`
ZoneKey(zone) == "Z" \o ToString(zone)

\* rates.json of the FedEx data set: row "1" .. "150" -> zone column -> cents
FedexRates ==
    [w \in {ToString(k) : k \in 1..150} |->
        [z \in {ZoneKey(k) : k \in 2..5} |->
            LET lb == CHOOSE k \in 1..150 : ToString(k) = w
                zn == CHOOSE k \in 2..5 : ZoneKey(k) = z
            IN  900 + 31 * lb + 170 * (zn - 2)]]

determineSurcharge(L_cm, W_cm, H_cm, weightKg, zone, scAmounts) ==
    LET dims_cm == SortDesc3(L_cm, W_cm, H_cm)
        maxDim_in == cmToInchCeil(dims_cm[1])
        secondDim_in == cmToInchCeil(dims_cm[2])
        thirdDim_in == cmToInchCeil(dims_cm[3])
        lengthGirth_in == maxDim_in + 2 * (secondDim_in + thirdDim_in)
        isAhsDim == (maxDim_in > 48) \/ (secondDim_in > 30)
        lgInch == maxDim_in + 2 * (secondDim_in + thirdDim_in)
        isAhsDimLG == lgInch > 105
        ahsDimTriggered == isAhsDim \/ isAhsDimLG
        \* weightKg > 22.68
        isAhsWgt == weightKg > 2268
        zoneData == ObjOrEmpty(scAmounts, ToString(zone))
        dimAmt == NumOrZero(zoneData, "AHS-Dim")
        wgtAmt == NumOrZero(zoneData, "AHS-Weight")
    IN  \* weightKg > 68
        IF weightKg > 6800 THEN
            [type |-> "Unauth", reason |-> "weight > 150 lb", minLb |-> 90]
        ELSE IF maxDim_in > 108 THEN
            [type |-> "Unauth", reason |-> "longest > 108 in", minLb |-> 90]
        ELSE IF lengthGirth_in > 165 THEN
            [type |-> "Unauth", reason |-> "L+Girth > 165 in", minLb |-> 90]
        ELSE IF maxDim_in > 96 THEN
            [type |-> "Oversize", reason |-> "longest > 96 in", minLb |-> 90]
        ELSE IF lengthGirth_in > 130 THEN
            [type |-> "Oversize", reason |-> "L+Girth > 130 in", minLb |-> 90]
        ELSE IF ahsDimTriggered /\ isAhsWgt THEN
            IF wgtAmt >= dimAmt
            THEN [type |-> "AHS-Wgt", reason |-> "Dim+Wgt: Wgt >= Dim", minLb |-> NULL]
            ELSE [type |-> "AHS-Dim", reason |-> "Dim+Wgt: Dim > Wgt", minLb |-> 40]
        ELSE IF ahsDimTriggered THEN
            [type |-> "AHS-Dim",
             reason |-> IF maxDim_in > 48 THEN "longest > 48 in"
                        ELSE IF secondDim_in > 30 THEN "second > 30 in"
                        ELSE "L+Girth > 105 in",
             minLb |-> 40]
        ELSE IF isAhsWgt THEN
            [type |-> "AHS-Wgt", reason |-> "weight > 50 lb", minLb |-> NULL]
        ELSE
            [type |-> "OK", reason |-> "ok", minLb |-> NULL]

calcBillableWeightNoMinimum(actualLb, dimLb, scMinLb) ==
    Max(RCeil(RMax(actualLb, dimLb)), 1)

calcBillableWeight(actualLb, dimLb, scMinLb) ==
    LET base == Max(RCeil(RMax(actualLb, dimLb)), 1)
    IN  IF scMinLb # NULL THEN Max(base, scMinLb) ELSE base

lookupRateClamped(billableLb, zone, rateTable) ==
    LET row == ToString(Min(billableLb, MAX_TABLE_LB))
    IN  IF ~Has(rateTable, row) THEN RInt(0)
        ELSE RInt(NumOrZero(rateTable[row], ZoneKey(zone)))

\* the rate as a rational number of cents
lookupRate(billableLb, zone, rateTable) ==
    LET zoneKey == ZoneKey(zone)
    IN  IF billableLb <= MAX_TABLE_LB THEN
            IF ~Has(rateTable, ToString(billableLb)) THEN RInt(0)
            ELSE RInt(NumOrZero(rateTable[ToString(billableLb)], zoneKey))
        ELSE IF ~Has(rateTable, ToString(MAX_TABLE_LB)) THEN RInt(0)
        ELSE RMulFrac(RInt(NumOrZero(rateTable[ToString(MAX_TABLE_LB)], zoneKey)),
                      billableLb, MAX_TABLE_LB)

getSurchargeAmount(scType, zone, scAmounts) ==
    LET typeMap == ("AHS-Dim" :> "AHS-Dim" @@ "AHS-Wgt" :> "AHS-Weight" @@
                    "Oversize" :> "Oversize" @@ "Unauth" :> "Unauthorized")
    IN  IF scType = "OK" THEN 0
        ELSE IF ~Has(scAmounts, ToString(zone)) THEN 0
        ELSE NumOrZero(scAmounts[ToString(zone)], typeMap[scType])

getResidentialChargeFixed(isResidential, surchargeData) ==
    IF ~isResidential THEN 0 ELSE 595

getResidentialCharge(isResidential, surchargeData) ==
    IF ~isResidential THEN 0
    ELSE LET c == NumOrZero(ObjOrEmpty(surchargeData, "residential"), "charge_per_pkg")
         IN  IF c = 0 THEN 595 ELSE c

getDasCharge(dasTier, isResidential, surchargeData) ==
    LET key == IF isResidential THEN "residential" ELSE "commercial"
    IN  IF dasTier = "" \/ dasTier = "None" THEN 0
        ELSE IF ~Has(surchargeData, "das") THEN 0
        ELSE IF ~Has(surchargeData.das, dasTier) THEN 0
        ELSE NumOrZero(surchargeData.das[dasTier], key)

calcLineItem(item, zone, fuelPct, isResidential, dasTier, rateTable, surchargeData) ==
    LET scAmounts == surchargeData.amounts
        actualLb == kgToLb(item.weightKg)
        dimLb == calcDimWeight(item.L_cm, item.W_cm, item.H_cm)
        sc == determineSurcharge(item.L_cm, item.W_cm, item.H_cm, item.weightKg, zone, scAmounts)
        billableLb == calcBillableWeight(actualLb, dimLb, sc.minLb)
        baseRate == lookupRate(billableLb, zone, rateTable)
        fuelAmount == RMulFrac(baseRate, fuelPct, 100)
        rateSubtotal == RAdd(baseRate, fuelAmount)
        scAmount == getSurchargeAmount(sc.type, zone, scAmounts)
        residentialCharge == getResidentialCharge(isResidential, surchargeData)
        dasCharge == getDasCharge(dasTier, isResidential, surchargeData)
        perPkgTotal == RAdd(rateSubtotal, RInt(scAmount + residentialCharge + dasCharge))
        lineTotal == RMulFrac(perPkgTotal, item.qty, 1)
    IN  [L_cm |-> item.L_cm, W_cm |-> item.W_cm, H_cm |-> item.H_cm,
         weightKg |-> item.weightKg, qty |-> item.qty,
         actualLb |-> Round2(actualLb),
         dimLb |-> Round2(dimLb),
         billableLb |-> billableLb,
         baseRate |-> Round2Cents(baseRate),
         fuelAmount |-> Round2Cents(fuelAmount),
         rateSubtotal |-> Round2Cents(rateSubtotal),
         scType |-> sc.type,
         scReason |-> sc.reason,
         scAmount |-> Round2Cents(RInt(scAmount)),
         residentialCharge |-> Round2Cents(RInt(residentialCharge)),
         dasCharge |-> Round2Cents(RInt(dasCharge)),
         perPkgTotal |-> Round2Cents(perPkgTotal),
         lineTotal |-> Round2Cents(lineTotal)]

\* items.filter(item => item.qty > 0)
FilterQty(items) == SelectSeq(items, LAMBDA item : item.qty > 0)

\* lines.reduce((s, l) => s + f(l), 0), terms being the f(l) in the order of lines
RECURSIVE Reduce(_)
Reduce(terms) ==
    IF terms = <<>> THEN 0 ELSE Head(terms) + Reduce(Tail(terms))

calcAllResultPerPackage(lines) ==
    LET LineTotal == [i \in 1..Len(lines) |-> lines[i].perPkgTotal]
        RateSub == [i \in 1..Len(lines) |-> lines[i].rateSubtotal * lines[i].qty]
        ScSub == [i \in 1..Len(lines) |-> lines[i].scAmount * lines[i].qty]
        ResSub == [i \in 1..Len(lines) |-> lines[i].residentialCharge * lines[i].qty]
        DasSub == [i \in 1..Len(lines) |-> lines[i].dasCharge * lines[i].qty]
    IN  [lines |-> lines,
         grandTotal |-> Round2Cents(RInt(Reduce(LineTotal))),
         rateSubtotal |-> Round2Cents(RInt(Reduce(RateSub))),
         scSubtotal |-> Round2Cents(RInt(Reduce(ScSub))),
         residentialSubtotal |-> Round2Cents(RInt(Reduce(ResSub))),
         dasSubtotal |-> Round2Cents(RInt(Reduce(DasSub)))]

\* the result of calcAll from its lines
calcAllResult(lines) ==
    LET LineTotal == [i \in 1..Len(lines) |-> lines[i].lineTotal]
        RateSub == [i \in 1..Len(lines) |-> lines[i].rateSubtotal * lines[i].qty]
        ScSub == [i \in 1..Len(lines) |-> lines[i].scAmount * lines[i].qty]
        ResSub == [i \in 1..Len(lines) |-> lines[i].residentialCharge * lines[i].qty]
        DasSub == [i \in 1..Len(lines) |-> lines[i].dasCharge * lines[i].qty]
    IN  [lines |-> lines,
         grandTotal |-> Round2Cents(RInt(Reduce(LineTotal))),
         rateSubtotal |-> Round2Cents(RInt(Reduce(RateSub))),
         scSubtotal |-> Round2Cents(RInt(Reduce(ScSub))),
         residentialSubtotal |-> Round2Cents(RInt(Reduce(ResSub))),
         dasSubtotal |-> Round2Cents(RInt(Reduce(DasSub)))]

\* items.filter(...).map(item => calcLineItem(item, ...))
calcAllLines(kept, zone, fuelPct, isResidential, dasTier, rateTable, surchargeData) ==
    [i \in 1..Len(kept) |->
        calcLineItem(kept[i], zone, fuelPct, isResidential, dasTier, rateTable, surchargeData)]

calcAll(items, zone, fuelPct, isResidential, dasTier, rateTable, surchargeData) ==
    calcAllResult(calcAllLines(FilterQty(items), zone, fuelPct, isResidential, dasTier,
                               rateTable, surchargeData))

(***************************************************************************)
(* Amazon Shipping: js/amazon-calculator.js                                *)
(***************************************************************************)
AMZN_MAX_TABLE_LB == 150

\* surcharges.json of the Amazon data set.  Amounts in cents, by zone group;
\* diesel prices in cents per gallon, percentages in 1/100 percent.
AmazonSurcharges ==
    [zone_group_map |-> ("2" :> "2" @@ "3" :> "3-4" @@ "4" :> "3-4" @@ "5" :> "5+"),
     amounts |->
        ("2"   :> ("NonStd" :> 1200 @@ "AHS-Dim" :> 2500 @@ "AHS-Weight" :> 4000 @@
                   "LargePkg" :> 22000 @@ "ExtraHeavy" :> 187500) @@
         "3-4" :> ("NonStd" :> 1400 @@ "AHS-Dim" :> 2900 @@ "AHS-Weight" :> 4400 @@
                   "LargePkg" :> 24000 @@ "ExtraHeavy" :> 187500) @@
         "5+"  :> ("NonStd" :> 1600 @@ "AHS-Dim" :> 3300 @@ "AHS-Weight" :> 4800 @@
                   "LargePkg" :> 26000 @@ "ExtraHeavy" :> 187500)),
     das |-> ("Delivery Area" :> 415 @@ "Extended Delivery Area" :> 530),
     fuel_diesel_table |-> <<[min |-> 300, max |-> 325, pct |-> 1500],
                             [min |-> 325, max |-> 350, pct |-> 1550],
                             [min |-> 350, max |-> 375, pct |-> 1600]>>,
     fuel_extension_rule |-> [increment_price |-> 25, increment_pct |-> 50]]

\* rates.json of the Amazon data set: row "1" .. "150" -> zone column -> cents
AmazonRates ==
    [w \in {ToString(k) : k \in 1..150} |->
        [z \in {ZoneKey(k) : k \in 2..5} |->
            LET lb == CHOOSE k \in 1..150 : ToString(k) = w
                zn == CHOOSE k \in 2..5 : ZoneKey(k) = z
            IN  850 + 29 * lb + 160 * (zn - 2)]]

getAmazonZoneGroupNoDefault(zone, surchargeData) ==
    LET map == surchargeData.zone_group_map
    IN  IF Has(map, ToString(zone)) THEN map[ToString(zone)] ELSE ToString(zone)

getAmazonZoneGroup(zone, surchargeData) ==
    LET map == surchargeData.zone_group_map
    IN  IF Has(map, ToString(zone)) THEN map[ToString(zone)] ELSE "5+"

\* the first row of the table with row.min <= dieselPrice < row.max, or 0
RECURSIVE FuelRowIndex(_, _, _)
FuelRowIndex(table, dieselPrice, i) ==
    IF i > Len(table) THEN 0
    ELSE IF dieselPrice >= table[i].min /\ dieselPrice < table[i].max THEN i
    ELSE FuelRowIndex(table, dieselPrice, i + 1)

\* while (price > dieselPrice) { price -= increment_price; pct -= increment_pct }
RECURSIVE FuelExtendDown(_, _, _, _)
FuelExtendDown(price, pct, dieselPrice, ext) ==
    IF price > dieselPrice
    THEN FuelExtendDown(price - ext.increment_price, pct - ext.increment_pct, dieselPrice, ext)
    ELSE pct

\* while (dieselPrice >= price) { price += increment_price; pct += increment_pct }
RECURSIVE FuelExtendUp(_, _, _, _)
FuelExtendUp(price, pct, dieselPrice, ext) ==
    IF dieselPrice >= price
    THEN FuelExtendUp(price + ext.increment_price, pct + ext.increment_pct, dieselPrice, ext)
    ELSE pct

\* amazonGetFuelPct without the Math.max(0, ...) of the downward extension
amazonGetFuelPctUnclamped(dieselPrice, surchargeData) ==
    LET table == surchargeData.fuel_diesel_table
        row == FuelRowIndex(table, dieselPrice, 1)
        ext == surchargeData.fuel_extension_rule
        firstRow == table[1]
        lastRow == table[Len(table)]
    IN  IF ~Has(surchargeData, "fuel_diesel_table") \/ dieselPrice = 0 THEN 0
        ELSE IF row # 0 THEN table[row].pct
        ELSE IF ~Has(surchargeData, "fuel_extension_rule") THEN 0
        ELSE IF dieselPrice < firstRow.min THEN
            FuelExtendDown(firstRow.min, firstRow.pct, dieselPrice, ext)
        ELSE FuelExtendUp(lastRow.max, lastRow.pct + ext.increment_pct, dieselPrice, ext)
                - ext.increment_pct

\* the percentage in 1/100 percent (Math.round(pct * 100) / 100 keeps it)
amazonGetFuelPct(dieselPrice, surchargeData) ==
    LET table == surchargeData.fuel_diesel_table
        row == FuelRowIndex(table, dieselPrice, 1)
        ext == surchargeData.fuel_extension_rule
        firstRow == table[1]
        lastRow == table[Len(table)]
    IN  IF ~Has(surchargeData, "fuel_diesel_table") \/ dieselPrice = 0 THEN 0
        ELSE IF row # 0 THEN table[row].pct
        ELSE IF ~Has(surchargeData, "fuel_extension_rule") THEN 0
        ELSE IF dieselPrice < firstRow.min THEN
            Max(0, FuelExtendDown(firstRow.min, firstRow.pct, dieselPrice, ext))
        ELSE FuelExtendUp(lastRow.max, lastRow.pct + ext.increment_pct, dieselPrice, ext)
                - ext.increment_pct

amazonDetermineSurcharge(L_cm, W_cm, H_cm, weightKg) ==
    LET dims_cm == SortDesc3(L_cm, W_cm, H_cm)
        maxDim_in == cmToInchCeil(dims_cm[1])
        secondDim_in == cmToInchCeil(dims_cm[2])
        thirdDim_in == cmToInchCeil(dims_cm[3])
        girth_in == maxDim_in + 2 * (secondDim_in + thirdDim_in)
        actualLb == kgToLb(weightKg)
    IN  IF RGtInt(actualLb, 150) THEN
            [type |-> "ExtraHeavy", reason |-> "weight > 150 lb", minLb |-> NULL]
        ELSE IF girth_in > 165 THEN
            [type |-> "ExtraHeavy", reason |-> "girth > 165 in", minLb |-> NULL]
        ELSE IF maxDim_in > 108 THEN
            [type |-> "ExtraHeavy", reason |-> "longest > 108 in", minLb |-> NULL]
        ELSE IF girth_in > 130 THEN
            [type |-> "LargePkg", reason |-> "girth > 130 in", minLb |-> 90]
        ELSE IF maxDim_in > 96 THEN
            [type |-> "LargePkg", reason |-> "longest > 96 in", minLb |-> 90]
        ELSE IF RGtInt(actualLb, 50) THEN
            [type |-> "AHS-Wgt", reason |-> "weight > 50 lb", minLb |-> NULL]
        ELSE IF girth_in > 105 THEN
            [type |-> "AHS-Dim", reason |-> "girth > 105 in", minLb |-> NULL]
        ELSE IF maxDim_in > 47 THEN
            [type |-> "AHS-Dim", reason |-> "longest > 47 in", minLb |-> NULL]
        ELSE IF secondDim_in > 42 THEN
            [type |-> "AHS-Dim", reason |-> "second > 42 in", minLb |-> NULL]
        ELSE IF maxDim_in > 37 THEN
            [type |-> "NonStd", reason |-> "longest > 37 in", minLb |-> NULL]
        ELSE IF secondDim_in > 30 THEN
            [type |-> "NonStd", reason |-> "second > 30 in", minLb |-> NULL]
        ELSE IF thirdDim_in > 24 THEN
            [type |-> "NonStd", reason |-> "third > 24 in", minLb |-> NULL]
        ELSE
            [type |-> "OK", reason |-> "ok", minLb |-> NULL]

amazonGetSurchargeAmount(scType, zone, surchargeData) ==
    LET group == getAmazonZoneGroup(zone, surchargeData)
        typeMap == ("NonStd" :> "NonStd" @@ "AHS-Dim" :> "AHS-Dim" @@
                    "AHS-Wgt" :> "AHS-Weight" @@ "AHS-Pkg" :> "AHS-Pkg" @@
                    "LargePkg" :> "LargePkg" @@ "ExtraHeavy" :> "ExtraHeavy")
        key == IF Has(typeMap, scType) THEN typeMap[scType] ELSE scType
    IN  IF scType = "OK" THEN 0
        ELSE IF ~Has(surchargeData.amounts, group) THEN 0
        ELSE NumOrZero(surchargeData.amounts[group], key)

\* surchargeData.das[dasTier] throws when the data has no das table
amazonGetDasCharge(dasTier, surchargeData) ==
    IF dasTier = "" \/ dasTier = "None" THEN 0
    ELSE IF ~Has(surchargeData, "das") THEN [throws |-> "TypeError"]
    ELSE NumOrZero(surchargeData.das, dasTier)

\* the rate in cents
amazonLookupRate(billableLb, zone, rateTable) ==
    LET zoneKey == ZoneKey(zone)
        clampedLb == Min(billableLb, AMZN_MAX_TABLE_LB)
    IN  IF ~Has(rateTable, ToString(clampedLb)) THEN 0
        ELSE NumOrZero(rateTable[ToString(clampedLb)], zoneKey)

\* amazonCalcLineItem from the fuelPct that its amazonGetFuelPct returned
amazonCalcLineItemAtFuel(item, zone, fuelPct, dasTier, rateTable, surchargeData) ==
    LET actualLb == kgToLb(item.weightKg)
        dimLb == calcDimWeight(item.L_cm, item.W_cm, item.H_cm)
        sc == amazonDetermineSurcharge(item.L_cm, item.W_cm, item.H_cm, item.weightKg)
        billableLb == calcBillableWeight(actualLb, dimLb, sc.minLb)
        baseRate == RInt(amazonLookupRate(billableLb, zone, rateTable))
        \* baseRate * (fuelPct / 100), fuelPct in 1/100 percent
        fuelAmount == RMulFrac(baseRate, fuelPct, 100 * 100)
        rateSubtotal == RAdd(baseRate, fuelAmount)
        scAmount == amazonGetSurchargeAmount(sc.type, zone, surchargeData)
        residentialCharge == 0
        dasCharge == amazonGetDasCharge(dasTier, surchargeData)
        dasThrows == dasTier # "" /\ dasTier # "None" /\ ~Has(surchargeData, "das")
        perPkgTotal == RAdd(rateSubtotal, RInt(scAmount + residentialCharge + dasCharge))
        lineTotal == RMulFrac(perPkgTotal, item.qty, 1)
    IN  IF dasThrows THEN dasCharge ELSE
        [L_cm |-> item.L_cm, W_cm |-> item.W_cm, H_cm |-> item.H_cm,
         weightKg |-> item.weightKg, qty |-> item.qty,
         actualLb |-> Round2(actualLb),
         dimLb |-> Round2(dimLb),
         billableLb |-> billableLb,
         baseRate |-> Round2Cents(baseRate),
         fuelPct |-> fuelPct,
         fuelAmount |-> Round2Cents(fuelAmount),
         rateSubtotal |-> Round2Cents(rateSubtotal),
         scType |-> sc.type,
         scReason |-> sc.reason,
         scAmount |-> Round2Cents(RInt(scAmount)),
         residentialCharge |-> 0,
         dasCharge |-> Round2Cents(RInt(dasCharge)),
         perPkgTotal |-> Round2Cents(perPkgTotal),
         lineTotal |-> Round2Cents(lineTotal)]

amazonCalcLineItem(item, zone, dieselPrice, dasTier, rateTable, surchargeData) ==
    amazonCalcLineItemAtFuel(item, zone, amazonGetFuelPct(dieselPrice, surchargeData),
                             dasTier, rateTable, surchargeData)

\* items.filter(...).map(item => amazonCalcLineItem(item, ...))
amazonCalcAllLines(kept, zone, dieselPrice, dasTier, rateTable, surchargeData) ==
    [i \in 1..Len(kept) |->
        amazonCalcLineItem(kept[i], zone, dieselPrice, dasTier, rateTable, surchargeData)]

\* the result of amazonCalcAll from its lines, the first exception of a line
\* leaving the call
amazonCalcAllResult(lines) ==
    IF \E i \in 1..Len(lines) : Has(lines[i], "throws") THEN
        lines[CHOOSE i \in 1..Len(lines) : Has(lines[i], "throws")
                                           /\ \A j \in 1..(i - 1) : ~Has(lines[j], "throws")]
    ELSE
    LET LineTotal == [i \in 1..Len(lines) |-> lines[i].lineTotal]
        RateSub == [i \in 1..Len(lines) |-> lines[i].rateSubtotal * lines[i].qty]
        ScSub == [i \in 1..Len(lines) |-> lines[i].scAmount * lines[i].qty]
        DasSub == [i \in 1..Len(lines) |-> lines[i].dasCharge * lines[i].qty]
    IN  [lines |-> lines,
         grandTotal |-> Round2Cents(RInt(Reduce(LineTotal))),
         rateSubtotal |-> Round2Cents(RInt(Reduce(RateSub))),
         scSubtotal |-> Round2Cents(RInt(Reduce(ScSub))),
         residentialSubtotal |-> 0,
         dasSubtotal |-> Round2Cents(RInt(Reduce(DasSub)))]

amazonCalcAll(items, zone, dieselPrice, dasTier, rateTable, surchargeData) ==
    amazonCalcAllResult(amazonCalcAllLines(FilterQty(items), zone, dieselPrice, dasTier,
                                     rateTable, surchargeData))

(***************************************************************************)
(* Yamato TA-Q-BIN: js/yamato-calculator.js.  Lengths in 1/10 cm, weights  *)
(* in 1/100 kg, amounts in yen.                                            *)
(***************************************************************************)
YAMATO_SIZE_TIERS == <<60, 80, 100, 120, 140, 160, 180, 200>>

\* weight ceiling of each tier, in kg
YAMATO_WEIGHT_LIMITS ==
    (60 :> 2 @@ 80 :> 5 @@ 100 :> 10 @@ 120 :> 15 @@ 140 :> 20 @@ 160 :> 25 @@
     180 :> 30 @@ 200 :> 30)

YAMATO_MAX_THREE_SIDE_CM == 200

YamatoLongestLimitedAsSum == YAMATO_MAX_THREE_SIDE_CM

YAMATO_MAX_LONGEST_CM == 170

YAMATO_MAX_WEIGHT_KG == 30

\* A JavaScript number (IEEE 754 double) that is below 1024 and a whole
\* multiple of 2^-60 is kept exactly, as the five base-2^14 digits of
\* value * 2^60, least significant first.
Limb == 16384

RECURSIVE Pow2(_)
Pow2(k) == IF k <= 0 THEN 1 ELSE 2 * Pow2(k - 1)

\* the number of binary digits of x
RECURSIVE BitLength(_)
BitLength(x) == IF x = 0 THEN 0 ELSE 1 + BitLength(x \div 2)

\* the number of binary digits of the number v
NumBitLength(v) ==
    IF v[5] # 0 THEN 56 + BitLength(v[5])
    ELSE IF v[4] # 0 THEN 42 + BitLength(v[4])
    ELSE IF v[3] # 0 THEN 28 + BitLength(v[3])
    ELSE IF v[2] # 0 THEN 14 + BitLength(v[2])
    ELSE BitLength(v[1])

\* digits that grew beyond the base, carried upwards
Carried(v) ==
    LET a2 == v[2] + (v[1] \div Limb)
        a3 == v[3] + (a2 \div Limb)
        a4 == v[4] + (a3 \div Limb)
        a5 == v[5] + (a4 \div Limb)
    IN  <<v[1] % Limb, a2 % Limb, a3 % Limb, a4 % Limb, a5>>

\* round to nearest, ties to even, to the 53 significant binary digits of a
\* double; sticky tells that the exact value lies above v by less than one
\* unit of v
NumRound(v, sticky) ==
    LET d == NumBitLength(v) - 53
        pair == v[1] + v[2] * Limb
        low == pair % Pow2(d)
        half == Pow2(d - 1)
        odd == (pair \div Pow2(d)) % 2 = 1
        up == low > half \/ (low = half /\ (sticky \/ odd))
    IN  IF d <= 0 THEN v
        ELSE Carried(<<pair - low + (IF up THEN Pow2(d) ELSE 0), 0, v[3], v[4], v[5]>>)

\* item.L_mm / 10: the double nearest to mm / 10, mm a whole number
Tenth(mm) ==
    LET c5 == mm * 16
        c4 == (c5 % 10) * Limb
        c3 == (c4 % 10) * Limb
        c2 == (c3 % 10) * Limb
        c1 == (c2 % 10) * Limb
    IN  NumRound(<<c1 \div 10, c2 \div 10, c3 \div 10, c4 \div 10, c5 \div 10>>,
                 c1 % 10 # 0)

\* a + b on doubles
NumAdd(a, b) ==
    NumRound(Carried(<<a[1] + b[1], a[2] + b[2], a[3] + b[3], a[4] + b[4],
                       a[5] + b[5]>>), FALSE)

\* -1, 0, 1 as a < t, a = t, a > t, for a double a and a whole number t
NumCompare(a, t) ==
    IF a[5] < 16 * t THEN 0 - 1
    ELSE IF a[5] > 16 * t THEN 1
    ELSE IF a[1] + a[2] + a[3] + a[4] > 0 THEN 1 ELSE 0

\* for (const tier of YAMATO_SIZE_TIERS) if (sumCm <= tier) return tier;
\* sumCm is a double
RECURSIVE SizeTierFromSumAt(_, _)
SizeTierFromSumAt(sumCm, i) ==
    IF i > Len(YAMATO_SIZE_TIERS) THEN NULL
    ELSE IF NumCompare(sumCm, YAMATO_SIZE_TIERS[i]) <= 0 THEN YAMATO_SIZE_TIERS[i]
    ELSE SizeTierFromSumAt(sumCm, i + 1)

yamatoSizeTierFromSum(sumCm) == SizeTierFromSumAt(sumCm, 1)

RECURSIVE SizeTierFromWeightAt(_, _)
SizeTierFromWeightAt(weightKg, i) ==
    IF i > Len(YAMATO_SIZE_TIERS) THEN NULL
    ELSE IF weightKg <= YAMATO_WEIGHT_LIMITS[YAMATO_SIZE_TIERS[i]] * 100
         THEN YAMATO_SIZE_TIERS[i]
    ELSE SizeTierFromWeightAt(weightKg, i + 1)

yamatoSizeTierFromWeightBelow(weightKg) == SizeTierFromWeightAt(weightKg + 1, 1)

yamatoSizeTierFromWeight(weightKg) == SizeTierFromWeightAt(weightKg, 1)

\* yamatoCalcSize from its line 43 on, threeSideSum being the double computed
\* by line 41. An error result carries that double; a size result carries
\* Math.round(threeSideSum * 10) / 10, in 1/10 cm. longest is in 1/10 cm.
yamatoCalcSizeOfSum(L_cm, W_cm, H_cm, weightKg, threeSideSum) ==
    LET dims == SortDesc3(L_cm, W_cm, H_cm)
        longest == dims[1]
        sumTier == yamatoSizeTierFromSum(threeSideSum)
        weightTier == yamatoSizeTierFromWeight(weightKg)
        appliedSize == Max(sumTier, weightTier)
        sizeSource == IF sumTier >= weightTier THEN "sum" ELSE "weight"
    IN  IF longest > YAMATO_MAX_LONGEST_CM * 10 THEN
            [error |-> TRUE, reason |-> "longest", threeSideSum |-> threeSideSum,
             longest |-> longest]
        ELSE IF NumCompare(threeSideSum, YAMATO_MAX_THREE_SIDE_CM) > 0 THEN
            [error |-> TRUE, reason |-> "threeSideSum", threeSideSum |-> threeSideSum,
             longest |-> longest]
        ELSE IF weightKg > YAMATO_MAX_WEIGHT_KG * 100 THEN
            [error |-> TRUE, reason |-> "weight", threeSideSum |-> threeSideSum,
             longest |-> longest]
        ELSE IF sumTier = NULL \/ weightTier = NULL THEN
            [error |-> TRUE, reason |-> "size", threeSideSum |-> threeSideSum,
             longest |-> longest]
        ELSE
            [error |-> FALSE, threeSideSum |-> L_cm + W_cm + H_cm, longest |-> longest,
             sumTier |-> sumTier, weightTier |-> weightTier,
             appliedSize |-> appliedSize, sizeSource |-> sizeSource,
             reason |-> sizeSource]

\* The sides arrive as item.L_mm / 10 and are given here in 1/10 cm; the sum
\* L_cm + W_cm + H_cm is added as doubles, from left to right.
yamatoCalcSize(L_cm, W_cm, H_cm, weightKg) ==
    yamatoCalcSizeOfSum(L_cm, W_cm, H_cm, weightKg,
                        NumAdd(NumAdd(Tenth(L_cm), Tenth(W_cm)), Tenth(H_cm)))

\* rates-cash.json / rates-cashless.json: origin -> size -> destination -> yen.
\* The cashless table has no row for origin hokkaido, and the okinawa rows
\* of both tables have no size 200.
YamatoRegions == {"kanto", "kansai", "okinawa", "hokkaido"}

YamatoRouteRate(origin, size, destination, off) ==
    LET far == IF origin = destination THEN 0
               ELSE IF origin = "okinawa" \/ destination = "okinawa" THEN 1100
               ELSE IF origin = "hokkaido" \/ destination = "hokkaido" THEN 700
               ELSE 120
    IN  940 + 15 * (size - 60) + far - off

YamatoRouteTable(origins, off) ==
    [o \in origins |->
        [sz \in {ToString(YAMATO_SIZE_TIERS[i]) :
                    i \in 1..(IF o = "okinawa" THEN 7 ELSE 8)} |->
            [d \in YamatoRegions |->
                YamatoRouteRate(o, CHOOSE t \in 60..200 : ToString(t) = sz, d, off)]]]

YamatoRatesCash == YamatoRouteTable(YamatoRegions, 0)

YamatoRatesCashless == YamatoRouteTable(YamatoRegions \ {"hokkaido"}, 3)

\* rates-intrapref.json: payment -> size -> yen; cashless has no size 180, 200
YamatoRatesIntrapref ==
    [cash |-> [sz \in {ToString(YAMATO_SIZE_TIERS[i]) : i \in 1..8} |->
                  780 + 14 * ((CHOOSE t \in 60..200 : ToString(t) = sz) - 60)],
     cashless |-> [sz \in {ToString(YAMATO_SIZE_TIERS[i]) : i \in 1..6} |->
                  777 + 14 * ((CHOOSE t \in 60..200 : ToString(t) = sz) - 60)]]

\* surcharges.json
YamatoSurcharges ==
    [cool |-> ("60" :> 275 @@ "80" :> 330 @@ "100" :> 440 @@ "120" :> 715),
     same_day |-> [standard |-> 550, okinawa |-> 330]]

\* discounts.json
YamatoDiscounts ==
    ("dropoff" :> [amount |-> 0 - 110] @@ "member_dropoff" :> [amount |-> 0 - 150] @@
     "digital" :> [amount |-> 0 - 60] @@ "multi" :> [amount |-> 0 - 100])

yamatoLookupRateOkinawaToo(origin, destination, appliedSize, payment, ratesCash, ratesCashless, ratesIntrapref, samePrefecture) ==
    LET intrapref == IF payment = "cash" THEN ratesIntrapref.cash ELSE ratesIntrapref.cashless
        rates == IF payment = "cash" THEN ratesCash ELSE ratesCashless
    IN  IF samePrefecture /\ Has(intrapref, ToString(appliedSize)) THEN
            [rate |-> intrapref[ToString(appliedSize)], isIntrapref |-> TRUE]
        ELSE IF Has(rates, origin) /\ Has(rates[origin], ToString(appliedSize))
                /\ Has(rates[origin][ToString(appliedSize)], destination) THEN
            [rate |-> rates[origin][ToString(appliedSize)][destination],
             isIntrapref |-> FALSE]
        ELSE [rate |-> 0, isIntrapref |-> FALSE]

yamatoLookupRate(origin, destination, appliedSize, payment, ratesCash, ratesCashless, ratesIntrapref, samePrefecture) ==
    LET method == IF payment = "cash" THEN "cash" ELSE "cashless"
        rates == IF payment = "cash" THEN ratesCash ELSE ratesCashless
    IN  IF samePrefecture /\ origin # "okinawa" /\ ~Has(ratesIntrapref, method) THEN
            \* intrapref is undefined and intrapref[String(appliedSize)] throws
            [throws |-> "TypeError"]
        ELSE IF samePrefecture /\ origin # "okinawa"
                /\ Has(ratesIntrapref[method], ToString(appliedSize)) THEN
            [rate |-> ratesIntrapref[method][ToString(appliedSize)], isIntrapref |-> TRUE]
        ELSE IF ~Has(rates, origin) THEN [rate |-> 0, isIntrapref |-> FALSE]
        ELSE IF ~Has(rates[origin], ToString(appliedSize)) THEN
            [rate |-> 0, isIntrapref |-> FALSE]
        ELSE IF ~Has(rates[origin][ToString(appliedSize)], destination) THEN
            [rate |-> 0, isIntrapref |-> FALSE]
        ELSE [rate |-> rates[origin][ToString(appliedSize)][destination],
              isIntrapref |-> FALSE]

\* yamatoGetCoolSurcharge charging nothing, without null, above size 120
yamatoGetCoolSurchargeSilent(appliedSize, coolType, surcharges) ==
    IF coolType = "" \/ coolType = "none" THEN 0
    ELSE IF appliedSize > 120 THEN 0
    ELSE IF ~Has(surcharges, "cool") THEN 0
    ELSE NumOrZero(surcharges.cool, ToString(appliedSize))

\* null when cool service is asked for a size above 120
yamatoGetCoolSurcharge(appliedSize, coolType, surcharges) ==
    IF coolType = "" \/ coolType = "none" THEN 0
    ELSE IF appliedSize > 120 THEN NULL
    ELSE IF ~Has(surcharges, "cool") THEN 0
    ELSE NumOrZero(surcharges.cool, ToString(appliedSize))

yamatoGetSameDaySurcharge(sameDay, origin, destination, surcharges) ==
    IF ~sameDay THEN 0
    ELSE IF ~Has(surcharges, "same_day") THEN 550
    ELSE IF origin = "okinawa" \/ destination = "okinawa" THEN
        (IF NumOrZero(surcharges.same_day, "okinawa") = 0 THEN 330
         ELSE surcharges.same_day.okinawa)
    ELSE (IF NumOrZero(surcharges.same_day, "standard") = 0 THEN 550
          ELSE surcharges.same_day.standard)

\* selectedDiscounts is the sequence of the selected keys
RECURSIVE DiscountsFrom(_, _, _, _)
DiscountsFrom(selectedDiscounts, discountDefs, hasMemberDropoff, i) ==
    IF i > Len(selectedDiscounts) THEN [total |-> 0, applied |-> <<>>]
    ELSE LET key == selectedDiscounts[i]
             rest == DiscountsFrom(selectedDiscounts, discountDefs, hasMemberDropoff, i + 1)
         IN  IF key = "dropoff" /\ hasMemberDropoff THEN rest
             ELSE IF Has(discountDefs, key) THEN
                 [total |-> discountDefs[key].amount + rest.total,
                  applied |-> <<[key |-> key, amount |-> discountDefs[key].amount]>>
                              \o rest.applied]
             ELSE rest

\* yamatoCalcDiscounts adding dropoff also next to member_dropoff
yamatoCalcDiscountsAdditive(selectedDiscounts, discountDefs) ==
    DiscountsFrom(selectedDiscounts, discountDefs, FALSE, 1)

yamatoCalcDiscounts(selectedDiscounts, discountDefs) ==
    LET hasMemberDropoff ==
            \E i \in 1..Len(selectedDiscounts) : selectedDiscounts[i] = "member_dropoff"
    IN  DiscountsFrom(selectedDiscounts, discountDefs, hasMemberDropoff, 1)

yamatoCalcLineItem(item, origin, destination, payment, samePrefecture, coolType, sameDay, selectedDiscounts, ratesCash, ratesCashless, ratesIntrapref, surcharges, discounts) ==
    LET size == yamatoCalcSize(item.L_cm, item.W_cm, item.H_cm, item.weightKg)
        lk == yamatoLookupRate(origin, destination, size.appliedSize, payment,
                               ratesCash, ratesCashless, ratesIntrapref, samePrefecture)
        coolSurcharge == yamatoGetCoolSurcharge(size.appliedSize, coolType, surcharges)
        coolError == coolSurcharge = NULL
        coolAmount == IF coolError THEN 0 ELSE coolSurcharge
        sameDaySurcharge == yamatoGetSameDaySurcharge(sameDay, origin, destination, surcharges)
        discountCalc == yamatoCalcDiscounts(selectedDiscounts, discounts)
        perPkgTotal == Max(0, lk.rate + coolAmount + sameDaySurcharge + discountCalc.total)
        lineTotal == perPkgTotal * item.qty
    IN  IF size.error THEN
            [L_cm |-> item.L_cm, W_cm |-> item.W_cm, H_cm |-> item.H_cm,
             weightKg |-> item.weightKg, qty |-> item.qty,
             error |-> TRUE, errorReason |-> size.reason,
             threeSideSum |-> size.threeSideSum, longest |-> size.longest,
             appliedSize |-> NULL, baseRate |-> 0, coolSurcharge |-> 0,
             sameDaySurcharge |-> 0, discountTotal |-> 0, discountDetails |-> <<>>,
             perPkgTotal |-> 0, lineTotal |-> 0, isIntrapref |-> FALSE]
        ELSE IF Has(lk, "throws") THEN lk
        ELSE
            [L_cm |-> item.L_cm, W_cm |-> item.W_cm, H_cm |-> item.H_cm,
             weightKg |-> item.weightKg, qty |-> item.qty,
             error |-> FALSE,
             threeSideSum |-> size.threeSideSum, longest |-> size.longest,
             sumTier |-> size.sumTier, weightTier |-> size.weightTier,
             appliedSize |-> size.appliedSize, sizeSource |-> size.sizeSource,
             sizeReason |-> size.reason,
             baseRate |-> lk.rate, isIntrapref |-> lk.isIntrapref,
             coolSurcharge |-> coolAmount, coolError |-> coolError,
             sameDaySurcharge |-> sameDaySurcharge,
             discountTotal |-> discountCalc.total,
             discountDetails |-> discountCalc.applied,
             perPkgTotal |-> perPkgTotal, lineTotal |-> lineTotal]

\* the result of yamatoCalcAll from its lines, the first exception of a line
\* leaving the call
yamatoCalcAllResult(lines) ==
    IF \E i \in 1..Len(lines) : Has(lines[i], "throws") THEN
        lines[CHOOSE i \in 1..Len(lines) : Has(lines[i], "throws")
                                           /\ \A j \in 1..(i - 1) : ~Has(lines[j], "throws")]
    ELSE
    LET LineTotal == [i \in 1..Len(lines) |-> lines[i].lineTotal]
        BaseSub == [i \in 1..Len(lines) |-> lines[i].baseRate * lines[i].qty]
        CoolSub == [i \in 1..Len(lines) |-> lines[i].coolSurcharge * lines[i].qty]
        SameDaySub == [i \in 1..Len(lines) |-> lines[i].sameDaySurcharge * lines[i].qty]
        DiscountSub == [i \in 1..Len(lines) |-> lines[i].discountTotal * lines[i].qty]
    IN  [lines |-> lines,
         grandTotal |-> Reduce(LineTotal),
         baseSubtotal |-> Reduce(BaseSub),
         coolSubtotal |-> Reduce(CoolSub),
         sameDaySubtotal |-> Reduce(SameDaySub),
         discountSubtotal |-> Reduce(DiscountSub)]

yamatoCalcAll(items, origin, destination, payment, samePrefecture, coolType, sameDay, selectedDiscounts, ratesCash, ratesCashless, ratesIntrapref, surcharges, discounts) ==
    yamatoCalcAllResult([i \in 1..Len(FilterQty(items)) |->
        yamatoCalcLineItem(FilterQty(items)[i], origin, destination, payment,
                           samePrefecture, coolType, sameDay, selectedDiscounts,
                           ratesCash, ratesCashless, ratesIntrapref, surcharges, discounts)])

(***************************************************************************)
(* Inputs                                                                  *)
(***************************************************************************)
\* side lengths offered to the FedEx and Amazon engines, in 1/10 cm; in whole
\* inches: 0, 10, 25, 31, 38, 48, 49, 97, 109, 60, 96, 108
DimGrid == <<0, 250, 610, 763, 940, 1194, 1220, 2439, 2744, 1500, 2438, 2743>>

NDim == 9

Dims == {DimGrid[i] : i \in 1..Min(NDim, Len(DimGrid))}

\* weights, in 1/100 kg: 0 lb, 8.8 lb, 49.98 lb, 50.0003 lb, 50.02 lb,
\* 149.98 lb, 150.0009 lb, 154.3 lb, 149.91 lb, 22.0 lb, 66.1 lb
WeightGrid == <<0, 400, 2267, 2268, 2269, 6803, 6804, 7000, 6800, 1000, 3000>>

NWeight == 8

Weights == {WeightGrid[i] : i \in 1..Min(NWeight, Len(WeightGrid))}

MaxZone == 5

\* zones 2 .. 5 are in the data sets; a larger zone is in none of the tables
Zones == 2..(MaxZone + 1)

\* side lengths offered to the Yamato engine, in 1/10 cm
YamatoDimGrid == <<100, 200, 300, 401, 700, 1000, 1700, 1701, 600, 0>>

NYamatoDim == 8

YamatoDims == {YamatoDimGrid[i] : i \in 1..Min(NYamatoDim, Len(YamatoDimGrid))}

\* weights offered to the Yamato engine, in 1/100 kg
YamatoWeightGrid == <<0, 200, 201, 500, 800, 1200, 2000, 2500, 3000, 3001, 1500, 1000>>

NYamatoWeight == 10

YamatoWeights ==
    {YamatoWeightGrid[i] : i \in 1..Min(NYamatoWeight, Len(YamatoWeightGrid))}

Item(L, W, H, kg, qty) ==
    [L_cm |-> L, W_cm |-> W, H_cm |-> H, weightKg |-> kg, qty |-> qty]

\* the items of the shared item list: 40 x 20 x 15 cm of 4 kg; a new row
\* (all zero); 30 x 30 x 30 cm of 70 kg; 180 x 10 x 10 cm of 5 kg;
\* 100 x 70 x 40.1 cm of 25 kg; 130 x 40 x 30 cm of 12 kg; 60 x 50 x 40 cm of 68.03 kg
Catalog ==
    <<Item(400, 200, 150, 400, 1), Item(0, 0, 0, 0, 1), Item(300, 300, 300, 7000, 1),
      Item(1800, 100, 100, 500, 1), Item(1000, 700, 401, 2500, 1),
      Item(1300, 400, 300, 1200, 1), Item(600, 500, 400, 6803, 1)>>

NCatalog == 5

MaxQty == 2

MaxItems == 2

CatalogItems ==
    {[Catalog[i] EXCEPT !.qty = q] : i \in 1..Min(NCatalog, Len(Catalog)), q \in 0..MaxQty}

\* every box of the grid, with every weight of the grid
GridItems == {Item(L, W, H, kg, 1) : L \in Dims, W \in Dims, H \in Dims, kg \in Weights}

YamatoGridItems ==
    {Item(L, W, H, kg, 1) :
        L \in YamatoDims, W \in YamatoDims, H \in YamatoDims, kg \in YamatoWeights}

\* the item lists of a batch call
RECURSIVE ItemLists(_)
ItemLists(n) ==
    IF n = 0 THEN {<<>>}
    ELSE LET shorter == ItemLists(n - 1)
         IN  shorter \cup {Append(l, it) : l \in {x \in shorter : Len(x) = n - 1},
                                            it \in CatalogItems}

Batches == ItemLists(MaxItems) \ {<<>>}

\* FedEx settings: fuel percentage, delivery type, DAS tier
FuelPcts == {0, 15}

FedexDasTiers == {"None", "Base", "Alaska"}

FedexSettings ==
    {[fuelPct |-> f, isResidential |-> r, dasTier |-> d] :
        f \in FuelPcts, r \in BOOLEAN, d \in FedexDasTiers}

FedexDefaultSettings == [fuelPct |-> 15, isResidential |-> FALSE, dasTier |-> "None"]

\* Amazon settings: diesel price in cents per gallon, DAS tier
DieselPrices == {0, 240, 325, 349, 410}

AmazonDasTiers == {"None", "Delivery Area", "Remote Area"}

AmazonSettings ==
    {[dieselPrice |-> p, dasTier |-> d] : p \in DieselPrices, d \in AmazonDasTiers}

AmazonDefaultSettings == [dieselPrice |-> 349, dasTier |-> "None"]

\* Yamato settings
DiscountSelections ==
    {<<>>, <<"dropoff", "digital">>, <<"dropoff", "member_dropoff", "digital">>,
     <<"member_dropoff", "dropoff", "digital", "multi", "unknown">>}

YamatoSettings ==
    {[origin |-> o, destination |-> d, payment |-> p, samePrefecture |-> sp,
      coolType |-> c, sameDay |-> sd, selectedDiscounts |-> ds] :
        o \in YamatoRegions, d \in {"kanto", "okinawa"}, p \in {"cash", "cashless"},
        sp \in BOOLEAN, c \in {"none", "chilled"}, sd \in BOOLEAN,
        ds \in DiscountSelections}

YamatoFewSettings ==
    {st \in YamatoSettings :
        /\ st.origin \in {"kanto", "okinawa"}
        /\ st.destination = "kanto"
        /\ st.payment = "cashless"
        /\ st.sameDay = FALSE
        /\ st.selectedDiscounts = <<"dropoff", "digital">>}

\* billable weights offered to the rate lookups
BillableGrid == <<1, 40, 90, 149, 150, 151, 300, 755, 0, 152>>

NBillable == 8

BillableLbs == {BillableGrid[i] : i \in 1..Min(NBillable, Len(BillableGrid))}

(***************************************************************************)
(* The engines are pure functions that a caller applies to arguments of    *)
(* its choice.  call is the call being made (the function and its          *)
(* arguments) and ret is <<>> until the function has returned and <<v>>    *)
(* once it has returned v.                                                 *)
(***************************************************************************)
DetermineSurchargeCalls ==
    {[fn |-> "determineSurcharge", item |-> it, zone |-> z] :
        it \in GridItems, z \in Zones}

AmazonDetermineSurchargeCalls ==
    {[fn |-> "amazonDetermineSurcharge", item |-> it] : it \in GridItems}

LookupRateCalls ==
    {[fn |-> "lookupRate", billableLb |-> w, zone |-> z] : w \in BillableLbs, z \in Zones}

AmazonLookupRateCalls ==
    {[fn |-> "amazonLookupRate", billableLb |-> w, zone |-> z] :
        w \in BillableLbs, z \in Zones}

CalcLineItemCalls ==
    {[fn |-> "calcLineItem", item |-> it, zone |-> z, settings |-> FedexDefaultSettings] :
        it \in GridItems, z \in Zones}
    \cup
    {[fn |-> "calcLineItem", item |-> it, zone |-> z, settings |-> st] :
        it \in CatalogItems, z \in Zones, st \in FedexSettings}

AmazonCalcLineItemCalls ==
    {[fn |-> "amazonCalcLineItem", item |-> it, zone |-> z,
      settings |-> AmazonDefaultSettings] : it \in GridItems, z \in Zones}
    \cup
    {[fn |-> "amazonCalcLineItem", item |-> it, zone |-> z, settings |-> st] :
        it \in CatalogItems, z \in Zones, st \in AmazonSettings}

YamatoCalcSizeCalls ==
    {[fn |-> "yamatoCalcSize", item |-> it] : it \in YamatoGridItems}

YamatoLookupRateCalls ==
    {[fn |-> "yamatoLookupRate", origin |-> o, destination |-> d, appliedSize |-> sz,
      payment |-> p, samePrefecture |-> sp] :
        o \in YamatoRegions, d \in YamatoRegions,
        sz \in {YAMATO_SIZE_TIERS[i] : i \in 1..Len(YAMATO_SIZE_TIERS)},
        p \in {"cash", "cashless"}, sp \in BOOLEAN}

YamatoCalcLineItemCalls ==
    {[fn |-> "yamatoCalcLineItem", item |-> it, settings |-> st] :
        it \in YamatoGridItems, st \in YamatoFewSettings}
    \cup
    {[fn |-> "yamatoCalcLineItem", item |-> it, settings |-> st] :
        it \in CatalogItems, st \in YamatoSettings}

CalcAllCalls ==
    {[fn |-> "calcAll", items |-> b, zone |-> z, settings |-> st] :
        b \in Batches, z \in {2, 3}, st \in {FedexDefaultSettings}}

AmazonCalcAllCalls ==
    {[fn |-> "amazonCalcAll", items |-> b, zone |-> z, settings |-> st] :
        b \in Batches, z \in {2, 3}, st \in {AmazonDefaultSettings}}

YamatoCalcAllCalls ==
    {[fn |-> "yamatoCalcAll", items |-> b, settings |-> st] :
        b \in Batches,
        st \in {x \in YamatoFewSettings : x.coolType = "chilled" /\ x.samePrefecture}}

\* the surchargeData argument: the one the call names, else the data set's
SurchargeDataOf(c, data) == IF Has(c, "surchargeData") THEN c.surchargeData ELSE data

Returned(fn) == call.fn = fn /\ ret # <<>>

\* the value returned
Ret == ret[1]

Calling(fn) == call.fn = fn /\ ret = <<>>

DetermineSurcharge ==
    /\ Calling("determineSurcharge")
    /\ ret' = <<determineSurcharge(call.item.L_cm, call.item.W_cm, call.item.H_cm,
                                   call.item.weightKg, call.zone, FedexAmounts)>>
    /\ UNCHANGED <<call, others>>

AmazonDetermineSurcharge ==
    /\ Calling("amazonDetermineSurcharge")
    /\ ret' = <<amazonDetermineSurcharge(call.item.L_cm, call.item.W_cm, call.item.H_cm,
                                         call.item.weightKg)>>
    /\ UNCHANGED <<call, others>>

LookupRate ==
    /\ Calling("lookupRate")
    /\ ret' = <<lookupRate(call.billableLb, call.zone, FedexRates)>>
    /\ UNCHANGED <<call, others>>

AmazonLookupRate ==
    /\ Calling("amazonLookupRate")
    /\ ret' = <<amazonLookupRate(call.billableLb, call.zone, AmazonRates)>>
    /\ UNCHANGED <<call, others>>

CalcLineItem ==
    /\ Calling("calcLineItem")
    /\ ret' = <<calcLineItem(call.item, call.zone, call.settings.fuelPct,
                             call.settings.isResidential, call.settings.dasTier,
                             FedexRates, SurchargeDataOf(call, FedexSurcharges))>>
    /\ UNCHANGED <<call, others>>

AmazonCalcLineItem ==
    /\ Calling("amazonCalcLineItem")
    /\ ret' = <<amazonCalcLineItem(call.item, call.zone, call.settings.dieselPrice,
                                   call.settings.dasTier, AmazonRates,
                                   SurchargeDataOf(call, AmazonSurcharges))>>
    /\ UNCHANGED <<call, others>>

YamatoCalcSize ==
    /\ Calling("yamatoCalcSize")
    /\ ret' = <<yamatoCalcSize(call.item.L_cm, call.item.W_cm, call.item.H_cm,
                               call.item.weightKg)>>
    /\ UNCHANGED <<call, others>>

YamatoLookupRate ==
    /\ Calling("yamatoLookupRate")
    /\ ret' = <<yamatoLookupRate(call.origin, call.destination, call.appliedSize,
                                 call.payment, YamatoRatesCash, YamatoRatesCashless,
                                 IF Has(call, "ratesIntrapref") THEN call.ratesIntrapref
                                 ELSE YamatoRatesIntrapref,
                                 call.samePrefecture)>>
    /\ UNCHANGED <<call, others>>

YamatoLine(item, st) ==
    yamatoCalcLineItem(item, st.origin, st.destination, st.payment, st.samePrefecture,
                       st.coolType, st.sameDay, st.selectedDiscounts,
                       YamatoRatesCash, YamatoRatesCashless, YamatoRatesIntrapref,
                       YamatoSurcharges, YamatoDiscounts)

YamatoCalcLineItem ==
    /\ Calling("yamatoCalcLineItem")
    /\ ret' = <<YamatoLine(call.item, call.settings)>>
    /\ UNCHANGED <<call, others>>

YamatoBatch(items, st) ==
    yamatoCalcAll(items, st.origin, st.destination, st.payment, st.samePrefecture,
                  st.coolType, st.sameDay, st.selectedDiscounts,
                  YamatoRatesCash, YamatoRatesCashless, YamatoRatesIntrapref,
                  YamatoSurcharges, YamatoDiscounts)

FedexBatch(items, zone, st) ==
    calcAll(items, zone, st.fuelPct, st.isResidential, st.dasTier,
            FedexRates, FedexSurcharges)

AmazonBatch(items, zone, st) ==
    amazonCalcAll(items, zone, st.dieselPrice, st.dasTier, AmazonRates, AmazonSurcharges)

CalcAll ==
    /\ Calling("calcAll")
    /\ ret' = <<calcAll(call.items, call.zone, call.settings.fuelPct,
                        call.settings.isResidential, call.settings.dasTier,
                        FedexRates, SurchargeDataOf(call, FedexSurcharges))>>
    /\ UNCHANGED <<call, others>>

AmazonCalcAll ==
    /\ Calling("amazonCalcAll")
    /\ ret' = <<amazonCalcAll(call.items, call.zone, call.settings.dieselPrice,
                              call.settings.dasTier, AmazonRates,
                              SurchargeDataOf(call, AmazonSurcharges))>>
    /\ UNCHANGED <<call, others>>

YamatoCalcAll ==
    /\ Calling("yamatoCalcAll")
    /\ ret' = <<YamatoBatch(call.items, call.settings)>>
    /\ UNCHANGED <<call, others>>

\* the FedEx and Amazon functions
Init ==
    /\ call \in DetermineSurchargeCalls \cup AmazonDetermineSurchargeCalls
                \cup LookupRateCalls \cup AmazonLookupRateCalls
                \cup CalcLineItemCalls \cup AmazonCalcLineItemCalls
    /\ ret = <<>>
    /\ OthersIdle

Next ==
    \/ DetermineSurcharge
    \/ AmazonDetermineSurcharge
    \/ LookupRate
    \/ AmazonLookupRate
    \/ CalcLineItem
    \/ AmazonCalcLineItem

Spec == Init /\ [][Next]_vars

\* the Yamato functions
InitYamato ==
    /\ call \in YamatoCalcSizeCalls \cup YamatoLookupRateCalls
                \cup YamatoCalcLineItemCalls \cup YamatoCalcAllCalls
    /\ ret = <<>>
    /\ OthersIdle

NextYamato ==
    \/ YamatoCalcSize
    \/ YamatoLookupRate
    \/ YamatoCalcLineItem
    \/ YamatoCalcAll

SpecYamato == InitYamato /\ [][NextYamato]_vars

\* the batch calls of the three engines
InitBatch ==
    /\ call \in CalcAllCalls \cup AmazonCalcAllCalls \cup YamatoCalcAllCalls
    /\ ret = <<>>
    /\ OthersIdle

NextBatch ==
    \/ CalcAll
    \/ AmazonCalcAll
    \/ YamatoCalcAll

SpecBatch == InitBatch /\ [][NextBatch]_vars

\* the helper functions of the engines, called on their own
\* diesel prices in cents per gallon, from 50 cents below zero
MaxDiesel == 450

DieselGrid == (0 - 50)..MaxDiesel

\* surcharges.json with low percentages, which the downward extension
\* brings below zero at prices above zero
AmazonLowFuel ==
    [AmazonSurcharges EXCEPT
        !.fuel_diesel_table = <<[min |-> 300, max |-> 325, pct |-> 100],
                                [min |-> 325, max |-> 350, pct |-> 150],
                                [min |-> 350, max |-> 400, pct |-> 250]>>,
        !.fuel_extension_rule = [increment_price |-> 40, increment_pct |-> 75]]

\* surcharges.json without a fuel_extension_rule
AmazonNoExtension ==
    [k \in DOMAIN AmazonSurcharges \ {"fuel_extension_rule"} |-> AmazonSurcharges[k]]

AmazonGetFuelPctCalls ==
    {[fn |-> "amazonGetFuelPct", dieselPrice |-> p, surchargeData |-> d] :
        p \in DieselGrid, d \in {AmazonSurcharges, AmazonLowFuel, AmazonNoExtension}}

\* Amazon lines at diesel prices in, below and above the table
AmazonFuelLineCalls ==
    {[fn |-> "amazonCalcLineItem", item |-> it, zone |-> z,
      settings |-> [dieselPrice |-> p, dasTier |-> "None"]] :
        it \in CatalogItems, z \in {2, 5}, p \in {0 - 50, 0, 10, 240, 325, 410}}

\* the discount keys of the check boxes, and one the definitions do not hold
DiscountKeys == {"dropoff", "member_dropoff", "digital", "multi", "unknown"}

MaxSelected == 4

\* the selections: keys in any order
RECURSIVE Selections(_)
Selections(n) ==
    IF n = 0 THEN {<<>>}
    ELSE LET shorter == Selections(n - 1)
         IN  shorter \cup {Append(l, k) : l \in {x \in shorter : Len(x) = n - 1},
                                           k \in DiscountKeys}

\* a check box gives its key once
NoRepeat(l) == \A i, j \in 1..Len(l) : l[i] = l[j] => i = j

YamatoCalcDiscountsCalls ==
    {[fn |-> "yamatoCalcDiscounts", selectedDiscounts |-> l] :
        l \in {x \in Selections(Min(MaxSelected, Cardinality(DiscountKeys))) : NoRepeat(x)}}

YamatoCalcDiscounts ==
    /\ Calling("yamatoCalcDiscounts")
    /\ ret' = <<yamatoCalcDiscounts(call.selectedDiscounts, YamatoDiscounts)>>
    /\ UNCHANGED <<call, others>>

\* surcharges.json of Yamato as it is, without same_day, and with a same_day
\* that lacks the okinawa or the standard amount
YamatoSameDayData ==
    {YamatoSurcharges,
     [k \in DOMAIN YamatoSurcharges \ {"same_day"} |-> YamatoSurcharges[k]],
     [YamatoSurcharges EXCEPT !.same_day = [standard |-> 600]],
     [YamatoSurcharges EXCEPT !.same_day = [okinawa |-> 300]]}

YamatoGetSameDaySurchargeCalls ==
    {[fn |-> "yamatoGetSameDaySurcharge", sameDay |-> sd, origin |-> o, destination |-> d,
      surcharges |-> sc] :
        sd \in BOOLEAN, o \in YamatoRegions, d \in YamatoRegions, sc \in YamatoSameDayData}

YamatoGetSameDaySurcharge ==
    /\ Calling("yamatoGetSameDaySurcharge")
    /\ ret' = <<yamatoGetSameDaySurcharge(call.sameDay, call.origin, call.destination,
                                          call.surcharges)>>
    /\ UNCHANGED <<call, others>>

\* Yamato lines of every size and weight of the item list, by every setting
YamatoSameDayLineCalls ==
    {[fn |-> "yamatoCalcLineItem", item |-> it, settings |-> st] :
        it \in CatalogItems, st \in {x \in YamatoSettings : x.selectedDiscounts = <<>>}}

AmazonGetFuelPct ==
    /\ Calling("amazonGetFuelPct")
    /\ ret' = <<amazonGetFuelPct(call.dieselPrice, call.surchargeData)>>
    /\ UNCHANGED <<call, others>>

\* side lengths in 1/10 cm (whole mm, as the item rows hold them) on both
\* sides of the inch thresholds of the US carriers
UsOrderSides == {300, 800, 1230, 2450}

\* side lengths in 1/10 cm whose sums reach the 60 cm tier and the 200 cm limit
YamatoOrderSides == {196, 198, 206, 664, 667, 669}

\* every order of every three sides
UsOrderItems ==
    {Item(L, W, H, kg, 1) :
        L \in UsOrderSides, W \in UsOrderSides, H \in UsOrderSides, kg \in {500, 3000}}

YamatoOrderItems ==
    {Item(L, W, H, 100, 1) :
        L \in YamatoOrderSides, W \in YamatoOrderSides, H \in YamatoOrderSides}

OrderCalls ==
    {[fn |-> "determineSurcharge", item |-> it, zone |-> 5] : it \in UsOrderItems}
    \cup
    {[fn |-> "calcLineItem", item |-> it, zone |-> 5, settings |-> FedexDefaultSettings] :
        it \in UsOrderItems}
    \cup
    {[fn |-> "amazonDetermineSurcharge", item |-> it] : it \in UsOrderItems}
    \cup
    {[fn |-> "yamatoCalcSize", item |-> it] : it \in YamatoOrderItems}

\* the surcharge types amazonDetermineSurcharge returns
AmazonScTypes == {"OK", "NonStd", "AHS-Dim", "AHS-Wgt", "LargePkg", "ExtraHeavy"}

\* zones 2..5 are in zone_group_map; 1 and the zones above 5 are not
AmazonZones == 1..(MaxZone + 3)

AmazonGetSurchargeAmountCalls ==
    {[fn |-> "amazonGetSurchargeAmount", scType |-> t, zone |-> z,
      surchargeData |-> AmazonSurcharges] : t \in AmazonScTypes, z \in AmazonZones}

AmazonZoneLineCalls ==
    {[fn |-> "amazonCalcLineItem", item |-> it, zone |-> z,
      settings |-> AmazonDefaultSettings] : it \in UsOrderItems, z \in {1, 2, 3, 5, 6}}

AmazonGetSurchargeAmount ==
    /\ Calling("amazonGetSurchargeAmount")
    /\ ret' = <<amazonGetSurchargeAmount(call.scType, call.zone, call.surchargeData)>>
    /\ UNCHANGED <<call, others>>

\* surcharges.json with another residential fee, and without the residential section
FedexSurchargeData ==
    {FedexSurcharges,
     [FedexSurcharges EXCEPT !.residential = [charge_per_pkg |-> 650]],
     [k \in DOMAIN FedexSurcharges \ {"residential"} |-> FedexSurcharges[k]]}

GetResidentialChargeCalls ==
    {[fn |-> "getResidentialCharge", isResidential |-> r, surchargeData |-> d] :
        r \in BOOLEAN, d \in FedexSurchargeData}

\* the FedEx tiers DAS_TO_FEDEX yields; Remote is not in the DAS table
GetDasChargeCalls ==
    {[fn |-> "getDasCharge", dasTier |-> t, isResidential |-> r, surchargeData |-> d] :
        t \in {"None", "Base", "Extended", "Remote"}, r \in BOOLEAN, d \in FedexSurchargeData}

FedexSettingsLineCalls ==
    {[fn |-> "calcLineItem", item |-> it, zone |-> z, settings |-> st] :
        it \in CatalogItems, z \in {2, 5}, st \in FedexSettings}

AmazonSettingsLineCalls ==
    {[fn |-> "amazonCalcLineItem", item |-> it, zone |-> z, settings |-> st] :
        it \in CatalogItems, z \in {2, 5}, st \in AmazonSettings}

GetResidentialCharge ==
    /\ Calling("getResidentialCharge")
    /\ ret' = <<getResidentialCharge(call.isResidential, call.surchargeData)>>
    /\ UNCHANGED <<call, others>>

GetDasCharge ==
    /\ Calling("getDasCharge")
    /\ ret' = <<getDasCharge(call.dasTier, call.isResidential, call.surchargeData)>>
    /\ UNCHANGED <<call, others>>

\* batches of a residential delivery in a DAS tier
SettingsBatchCalls ==
    {[fn |-> "calcAll", items |-> b, zone |-> 5,
      settings |-> [fuelPct |-> 15, isResidential |-> TRUE, dasTier |-> "Base"]] :
        b \in Batches}
    \cup
    {[fn |-> "amazonCalcAll", items |-> b, zone |-> 5,
      settings |-> [dieselPrice |-> 410, dasTier |-> "Delivery Area"]] : b \in Batches}

InitHelpers ==
    /\ call \in AmazonGetFuelPctCalls \cup AmazonFuelLineCalls \cup YamatoCalcDiscountsCalls
                \cup YamatoGetSameDaySurchargeCalls \cup YamatoSameDayLineCalls
                \cup OrderCalls \cup AmazonGetSurchargeAmountCalls \cup AmazonZoneLineCalls
                \cup GetResidentialChargeCalls \cup GetDasChargeCalls
                \cup FedexSettingsLineCalls \cup AmazonSettingsLineCalls
                \cup SettingsBatchCalls
    /\ ret = <<>>
    /\ OthersIdle

NextHelpers ==
    \/ AmazonGetFuelPct
    \/ AmazonCalcLineItem
    \/ YamatoCalcDiscounts
    \/ YamatoGetSameDaySurcharge
    \/ YamatoCalcLineItem
    \/ DetermineSurcharge
    \/ CalcLineItem
    \/ AmazonDetermineSurcharge
    \/ YamatoCalcSize
    \/ AmazonGetSurchargeAmount
    \/ GetResidentialCharge
    \/ GetDasCharge
    \/ CalcAll
    \/ AmazonCalcAll

SpecHelpers == InitHelpers /\ [][NextHelpers]_vars

(***************************************************************************)
(* Calls on tables that lack what is asked of them                         *)
(***************************************************************************)
\* an intra-prefecture table that lists the cash method only
YamatoRatesIntraprefCashOnly == [cash |-> YamatoRatesIntrapref.cash]

\* lookups in and beside the rate tables: weight rows 0 and 1..150, zone
\* columns Z2..Z5, an origin the cashless table lacks, a destination no table has
LookupMissCalls ==
    {[fn |-> f, billableLb |-> w, zone |-> z] :
        f \in {"lookupRate", "amazonLookupRate"}, w \in {0, 1, 150, 152}, z \in {2, 6}}
    \cup
    {[fn |-> "yamatoLookupRate", origin |-> o, destination |-> d, appliedSize |-> sz,
      payment |-> p, samePrefecture |-> sp, ratesIntrapref |-> ip] :
        o \in {"kanto", "hokkaido", "okinawa"}, d \in {"kanto", "tohoku"},
        sz \in {60, 180, 200}, p \in {"cash", "cashless"}, sp \in BOOLEAN,
        ip \in {YamatoRatesIntrapref, YamatoRatesIntraprefCashOnly}}

Lacking(obj, key) == [k \in DOMAIN obj \ {key} |-> obj[k]]

\* surcharges.json of FedEx: as shipped, without the das table, without the
\* amounts of zone 3
FedexMalformed ==
    {FedexSurcharges, Lacking(FedexSurcharges, "das"),
     [FedexSurcharges EXCEPT !.amounts = Lacking(FedexAmounts, "3")]}

\* surcharges.json of Amazon: as shipped, without the das table, without the
\* amounts of zone group 3-4, with zone 3 in a group that has no amounts
AmazonMalformed ==
    {AmazonSurcharges, Lacking(AmazonSurcharges, "das"),
     [AmazonSurcharges EXCEPT !.amounts = Lacking(AmazonSurcharges.amounts, "3-4")],
     [AmazonSurcharges EXCEPT !.zone_group_map["3"] = "9-10"]}

\* a parcel without surcharge, an oversized one, a heavy one, none
MalformedItems ==
    {[L_cm |-> 300, W_cm |-> 300, H_cm |-> 300, weightKg |-> 200, qty |-> q] :
        q \in 0..MaxQty}
    \cup {[L_cm |-> 2450, W_cm |-> 300, H_cm |-> 300, weightKg |-> 200, qty |-> 1],
          [L_cm |-> 1230, W_cm |-> 800, H_cm |-> 300, weightKg |-> 2500, qty |-> MaxQty]}

MalformedBatches ==
    {<<a>> : a \in MalformedItems} \cup {<<a, b>> : a, b \in MalformedItems}

MalformedCalls ==
    {[fn |-> "calcLineItem", item |-> it, zone |-> z,
      settings |-> [fuelPct |-> 15, isResidential |-> r, dasTier |-> t],
      surchargeData |-> d] :
        it \in MalformedItems, z \in {3, 5, 6}, r \in BOOLEAN,
        t \in {"None", "Extended", "Remote"}, d \in FedexMalformed}
    \cup
    {[fn |-> "amazonCalcLineItem", item |-> it, zone |-> z,
      settings |-> [dieselPrice |-> 349, dasTier |-> t], surchargeData |-> d] :
        it \in MalformedItems, z \in {3, 5, 6},
        t \in {"None", "Delivery Area", "Remote"}, d \in AmazonMalformed}
    \cup
    {[fn |-> "calcAll", items |-> b, zone |-> 3,
      settings |-> [fuelPct |-> 15, isResidential |-> FALSE, dasTier |-> t],
      surchargeData |-> d] :
        b \in MalformedBatches, t \in {"None", "Remote"}, d \in FedexMalformed}
    \cup
    {[fn |-> "amazonCalcAll", items |-> b, zone |-> 3,
      settings |-> [dieselPrice |-> 349, dasTier |-> t], surchargeData |-> d] :
        b \in MalformedBatches, t \in {"None", "Remote"}, d \in AmazonMalformed}

InitMissing ==
    /\ call \in LookupMissCalls \cup MalformedCalls
    /\ ret = <<>>
    /\ OthersIdle

NextMissing ==
    \/ LookupRate
    \/ AmazonLookupRate
    \/ YamatoLookupRate
    \/ CalcLineItem
    \/ AmazonCalcLineItem
    \/ CalcAll
    \/ AmazonCalcAll

SpecMissing == InitMissing /\ [][NextMissing]_vars

(***************************************************************************)
(* The extension loops of amazonGetFuelPct, one iteration a step           *)
(***************************************************************************)
\* the iterations a loop is followed for
MaxLoopSteps == 20

\* surcharges.json with the increment_price of the extension rule set to inc
AmazonFuelIncrement(inc) ==
    [AmazonSurcharges EXCEPT !.fuel_extension_rule.increment_price = inc]

FuelLoopData == {AmazonFuelIncrement(inc) : inc \in {0 - 25, 0, 25}}

FuelLoopPrices == {0 - 50, 0, 10, 240, 299, 300, 349, 374, 375, 410, 450}

FuelLoopBatches ==
    {<<[L_cm |-> 300, W_cm |-> 300, H_cm |-> 300, weightKg |-> 200, qty |-> q]>> :
        q \in 0..1}
    \cup {<<[L_cm |-> 300, W_cm |-> 300, H_cm |-> 300, weightKg |-> 200, qty |-> 0],
            [L_cm |-> 1230, W_cm |-> 800, H_cm |-> 300, weightKg |-> 2500, qty |-> MaxQty]>>}

FuelLoopCalls ==
    {[fn |-> "amazonGetFuelPct", dieselPrice |-> p, surchargeData |-> d] :
        p \in FuelLoopPrices, d \in FuelLoopData}
    \cup
    {[fn |-> "amazonCalcAll", items |-> b, zone |-> 3,
      settings |-> [dieselPrice |-> p, dasTier |-> "None"], surchargeData |-> d] :
        b \in FuelLoopBatches, p \in FuelLoopPrices, d \in FuelLoopData}

\* the dieselPrice argument of the call of amazonGetFuelPct that c makes
FuelPriceOf(c) ==
    IF c.fn = "amazonGetFuelPct" THEN c.dieselPrice ELSE c.settings.dieselPrice

\* amazonGetFuelPct returns before its extension loops (lines 31-43)
FuelReturnsDirectly(dieselPrice, surchargeData) ==
    \/ ~Has(surchargeData, "fuel_diesel_table")
    \/ dieselPrice = 0
    \/ FuelRowIndex(surchargeData.fuel_diesel_table, dieselPrice, 1) # 0
    \/ ~Has(surchargeData, "fuel_extension_rule")

\* what amazonGetFuelPct returns before its loops: 0 or the pct of the row
FuelDirectResult(dieselPrice, surchargeData) ==
    IF ~Has(surchargeData, "fuel_diesel_table") \/ dieselPrice = 0 THEN 0
    ELSE IF FuelRowIndex(surchargeData.fuel_diesel_table, dieselPrice, 1) # 0 THEN
        surchargeData.fuel_diesel_table[
            FuelRowIndex(surchargeData.fuel_diesel_table, dieselPrice, 1)].pct
    ELSE 0

\* what it returns after a loop: Math.max(0, pct) below the table,
\* pct - ext.increment_pct above
FuelLoopResult(l, ext) ==
    IF l.dir = "down" THEN Max(0, l.pct) ELSE l.pct - ext.increment_pct

\* the value of amazonCalcAll, its amazonGetFuelPct returning fuelPct
FuelCallResult(c, fuelPct) ==
    amazonCalcAllResult([i \in 1..Len(FilterQty(c.items)) |->
            amazonCalcLineItemAtFuel(FilterQty(c.items)[i], c.zone, fuelPct,
                                     c.settings.dasTier, AmazonRates, c.surchargeData)])

\* while (price > dieselPrice), while (dieselPrice >= price)
FuelLoopContinues(l, dieselPrice) ==
    IF l.dir = "down" THEN l.price > dieselPrice ELSE dieselPrice >= l.price

\* the call runs up to the first extension loop of amazonGetFuelPct, which
\* amazonCalcAll reaches in amazonCalcLineItem of its first item with qty > 0;
\* a batch without such an item returns at once
AmazonGetFuelPctEnter ==
    /\ ret = <<>>
    /\ loop = <<>>
    /\ call.fn \in {"amazonGetFuelPct", "amazonCalcAll"}
    /\ Has(call, "surchargeData")
    /\ LET dieselPrice == FuelPriceOf(call)
           table == call.surchargeData.fuel_diesel_table
           ext == call.surchargeData.fuel_extension_rule
           firstRow == table[1]
           lastRow == table[Len(table)]
       IN  IF call.fn = "amazonCalcAll" /\ FilterQty(call.items) = <<>>
           THEN ret' = <<amazonCalcAllResult(<<>>)>> /\ loop' = <<>>
           ELSE /\ ret' = <<>>
                /\ loop' =
                    IF FuelReturnsDirectly(dieselPrice, call.surchargeData)
                    THEN <<[dir |-> "returned", steps |-> 0,
                            pct |-> FuelDirectResult(dieselPrice, call.surchargeData)]>>
                    ELSE IF dieselPrice < firstRow.min
                    THEN <<[dir |-> "down", price |-> firstRow.min,
                            pct |-> firstRow.pct, steps |-> 0]>>
                    ELSE <<[dir |-> "up", price |-> lastRow.max,
                            pct |-> lastRow.pct + ext.increment_pct, steps |-> 0]>>
    /\ UNCHANGED <<call, scenarios, url, page>>

\* a loop is running
InFuelLoop == loop # <<>> /\ loop[1].dir \in {"down", "up"}

\* amazonGetFuelPct has returned to its caller
FuelPctReturned == loop # <<>> /\ loop[1].dir = "returned"

\* one iteration: price -= increment_price; pct -= increment_pct, or += both
AmazonGetFuelPctStep ==
    /\ InFuelLoop
    /\ FuelLoopContinues(loop[1], FuelPriceOf(call))
    /\ loop[1].steps < MaxLoopSteps
    /\ LET ext == call.surchargeData.fuel_extension_rule
           sign == IF loop[1].dir = "down" THEN 0 - 1 ELSE 1
       IN  loop' = <<[dir |-> loop[1].dir,
                      price |-> loop[1].price + sign * ext.increment_price,
                      pct |-> loop[1].pct + sign * ext.increment_pct,
                      steps |-> loop[1].steps + 1]>>
    /\ UNCHANGED <<call, ret, scenarios, url, page>>

\* the loop condition fails and amazonGetFuelPct returns
AmazonGetFuelPctExit ==
    /\ InFuelLoop
    /\ ~FuelLoopContinues(loop[1], FuelPriceOf(call))
    /\ loop' = <<[dir |-> "returned", steps |-> loop[1].steps,
                  pct |-> FuelLoopResult(loop[1], call.surchargeData.fuel_extension_rule)]>>
    /\ UNCHANGED <<call, ret, scenarios, url, page>>

\* the call of amazonGetFuelPct on its own ends with that value
AmazonGetFuelPctReturn ==
    /\ FuelPctReturned
    /\ call.fn = "amazonGetFuelPct"
    /\ ret' = <<loop[1].pct>>
    /\ loop' = <<>>
    /\ UNCHANGED <<call, scenarios, url, page>>

\* amazonCalcAll goes on from the fuelPct of its first line; the other lines
\* run amazonGetFuelPct with the same arguments, with the same outcome
AmazonCalcAllReturn ==
    /\ FuelPctReturned
    /\ call.fn = "amazonCalcAll"
    /\ ret' = <<FuelCallResult(call, loop[1].pct)>>
    /\ loop' = <<>>
    /\ UNCHANGED <<call, scenarios, url, page>>

InitFuelLoop ==
    /\ call \in FuelLoopCalls
    /\ ret = <<>>
    /\ OthersIdle

\* the steps inside amazonGetFuelPct
NextFuelPct ==
    \/ AmazonGetFuelPctEnter
    \/ AmazonGetFuelPctStep
    \/ AmazonGetFuelPctExit
    \/ AmazonGetFuelPctReturn

NextFuelLoop ==
    \/ NextFuelPct
    \/ AmazonCalcAllReturn

\* the JavaScript engine runs a call without pause: a step of amazonGetFuelPct
\* that can be taken is taken
SpecFuelLoop == InitFuelLoop /\ [][NextFuelLoop]_vars /\ WF_vars(NextFuelPct)

(***************************************************************************)
(* Properties.  The expected values are computed here from the statement   *)
(* of each property, not with the operators of the engines.                *)
(***************************************************************************)
\* the least whole number of inches that is >= x/10 cm
InchesUp(x) == CHOOSE n \in 0..200 : n * 254 >= x * 10 /\ (n = 0 \/ (n - 1) * 254 < x * 10)

Longest(it) == CHOOSE x \in {it.L_cm, it.W_cm, it.H_cm} :
                    \A y \in {it.L_cm, it.W_cm, it.H_cm} : y <= x

Shortest(it) == CHOOSE x \in {it.L_cm, it.W_cm, it.H_cm} :
                    \A y \in {it.L_cm, it.W_cm, it.H_cm} : y >= x

Middle(it) == it.L_cm + it.W_cm + it.H_cm - Longest(it) - Shortest(it)

LongestIn(it) == InchesUp(Longest(it))

SecondIn(it) == InchesUp(Middle(it))

ThirdIn(it) == InchesUp(Shortest(it))

GirthIn(it) == LongestIn(it) + 2 * (SecondIn(it) + ThirdIn(it))

\* weight in lb (kg * 2.2046) is > lb
HeavierThanLb(it, lb) == it.weightKg * 22046 > lb * 1000000

FedexDimClass(it) ==
    IF LongestIn(it) > 108 \/ GirthIn(it) > 165 THEN "Unauth"
    ELSE IF LongestIn(it) > 96 \/ GirthIn(it) > 130 THEN "Oversize"
    ELSE IF LongestIn(it) > 48 \/ SecondIn(it) > 30 \/ GirthIn(it) > 105 THEN "AHS-Dim"
    ELSE "OK"

\* C1: for a package of at most 50 lb, determineSurcharge returns Unauth iff
\* longest > 108 in or L+girth > 165 in, else Oversize iff longest > 96 or
\* L+girth > 130, else AHS-Dim iff longest > 48 or second > 30 or L+girth > 105,
\* else OK, on the sides sorted descending and rounded up to whole inches.
C1_FedexDimensionClass ==
    (Returned("determineSurcharge") /\ ~HeavierThanLb(call.item, 50))
        => Ret.type = FedexDimClass(call.item)

\* an AHS-Dim package of at most 50 lb whose longest side is not given first
C1_Witness ==
    /\ Returned("determineSurcharge")
    /\ ~HeavierThanLb(call.item, 50)
    /\ call.item.L_cm < call.item.H_cm
    /\ Ret.type = "AHS-Dim"

AmazonClass(it) ==
    IF HeavierThanLb(it, 150) \/ GirthIn(it) > 165 \/ LongestIn(it) > 108 THEN "ExtraHeavy"
    ELSE IF GirthIn(it) > 130 \/ LongestIn(it) > 96 THEN "LargePkg"
    ELSE IF HeavierThanLb(it, 50) THEN "AHS-Wgt"
    ELSE IF GirthIn(it) > 105 \/ LongestIn(it) > 47 \/ SecondIn(it) > 42 THEN "AHS-Dim"
    ELSE IF LongestIn(it) > 37 \/ SecondIn(it) > 30 \/ ThirdIn(it) > 24 THEN "NonStd"
    ELSE "OK"

\* C2: amazonDetermineSurcharge returns exactly one type, the first match of
\* ExtraHeavy (> 150 lb, girth > 165, longest > 108), LargePkg (girth > 130,
\* longest > 96), AHS-Wgt (> 50 lb), AHS-Dim (girth > 105, longest > 47,
\* second > 42), NonStd (longest > 37, second > 30, third > 24), OK.
C2_AmazonClass ==
    Returned("amazonDetermineSurcharge")
        => /\ Ret.type = AmazonClass(call.item)
           /\ Ret.type \in {"ExtraHeavy", "LargePkg", "AHS-Wgt", "AHS-Dim", "NonStd", "OK"}

\* a package over 50 lb that also meets the girth condition of AHS-Dim: the
\* weight condition comes first
C2_Witness ==
    /\ Returned("amazonDetermineSurcharge")
    /\ Ret.type = "AHS-Wgt"
    /\ GirthIn(call.item) > 105

TierSet == {60, 80, 100, 120, 140, 160, 180, 200}

\* the weight ceiling of a tier, in kg
TierCeilingKg(t) ==
    CASE t = 60 -> 2 [] t = 80 -> 5 [] t = 100 -> 10 [] t = 120 -> 15
      [] t = 140 -> 20 [] t = 160 -> 25 [] t = 180 -> 30 [] t = 200 -> 30

\* the least element of a non-empty set of tiers
LeastTier(S) == CHOOSE t \in S : \A u \in S : t <= u

\* the three-side sum of an item: L_cm + W_cm + H_cm, a double
ThreeSideSum(it) == NumAdd(NumAdd(Tenth(it.L_cm), Tenth(it.W_cm)), Tenth(it.H_cm))

\* longest side <= 170 cm, three-side sum <= 200 cm, weight <= 30 kg
WithinYamatoLimits(it) ==
    /\ Longest(it) <= 170 * 10
    /\ NumCompare(ThreeSideSum(it), 200) <= 0
    /\ it.weightKg <= 30 * 100

BaseBillable(it) ==
    LET actualUp == (it.weightKg * 22046 + 999999) \div 1000000
        dimUp == (LongestIn(it) * SecondIn(it) * ThirdIn(it) + 138) \div 139
        up == IF actualUp >= dimUp THEN actualUp ELSE dimUp
    IN  IF up >= 1 THEN up ELSE 1

FedexFloor(type) ==
    IF type \in {"Unauth", "Oversize"} THEN 90 ELSE IF type = "AHS-Dim" THEN 40 ELSE 0

AmazonFloor(type) == IF type = "LargePkg" THEN 90 ELSE 0

\* C4: on every FedEx and Amazon line, billable weight is
\* max(ceiling(max(actual lb, dim lb)), 1) raised to the floor of the line's
\* class (90 for Unauth, Oversize and LargePkg, 40 for FedEx AHS-Dim, none
\* otherwise), an integer >= 1.
C4_BillableWeight ==
    /\ Returned("calcLineItem")
        => /\ Ret.billableLb = Max(BaseBillable(call.item), FedexFloor(Ret.scType))
           /\ Ret.billableLb \in Nat /\ Ret.billableLb >= 1
    /\ Returned("amazonCalcLineItem")
        => /\ Ret.billableLb = Max(BaseBillable(call.item), AmazonFloor(Ret.scType))
           /\ Ret.billableLb \in Nat /\ Ret.billableLb >= 1

\* a FedEx AHS-Dim line lifted to the 40 lb floor
C4_Witness ==
    /\ Returned("calcLineItem")
    /\ Ret.scType = "AHS-Dim"
    /\ BaseBillable(call.item) < 40
    /\ Ret.billableLb = 40

\* an Unauthorized condition on the dimensions
FedexUnauthDims(it) == LongestIn(it) > 108 \/ GirthIn(it) > 165

\* C5: the FedEx weight conditions are evaluated in pounds (kg * 2.2046): over
\* 150 lb the item is Unauth with a 90 lb minimum whatever its dimensions; an
\* item of at most 150 lb with no Unauthorized dimension is never Unauth; an
\* item over 50 lb is never OK.
C5_FedexWeightInPounds ==
    Returned("determineSurcharge")
        => /\ HeavierThanLb(call.item, 150) => (Ret.type = "Unauth" /\ Ret.minLb = 90)
           /\ (~HeavierThanLb(call.item, 150) /\ ~FedexUnauthDims(call.item))
                 => Ret.type # "Unauth"
           /\ HeavierThanLb(call.item, 50) => Ret.type # "OK"

\* the zone's amount of a surcharge type, 0 when the zone or the amount is missing
FedexZoneAmount(zone, key) ==
    IF ToString(zone) \in DOMAIN FedexAmounts /\ key \in DOMAIN FedexAmounts[ToString(zone)]
    THEN FedexAmounts[ToString(zone)][key] ELSE 0

\* a dimensional AHS condition and the weight AHS condition (over 50 lb) both
\* hold and no Unauthorized or Oversize condition holds
BothAhs(it) ==
    /\ FedexDimClass(it) = "AHS-Dim"
    /\ HeavierThanLb(it, 50)
    /\ ~HeavierThanLb(it, 150)

\* C6: when both AHS conditions hold and no higher class does, the type is
\* AHS-Wgt if the zone's AHS-Weight amount is >= its AHS-Dim amount and AHS-Dim
\* otherwise (missing amounts count as 0), and the line is charged the larger
\* of the two amounts.
C6_FedexAhsCostlier ==
    /\ (Returned("determineSurcharge") /\ BothAhs(call.item))
        => Ret.type = IF FedexZoneAmount(call.zone, "AHS-Weight")
                            >= FedexZoneAmount(call.zone, "AHS-Dim")
                      THEN "AHS-Wgt" ELSE "AHS-Dim"
    /\ (Returned("calcLineItem") /\ BothAhs(call.item))
        => Ret.scAmount = Max(FedexZoneAmount(call.zone, "AHS-Weight"),
                              FedexZoneAmount(call.zone, "AHS-Dim"))

\* the entry of a rate table, 0 when the row or the column is missing
RateEntry(table, lb, zone) ==
    IF ToString(lb) \in DOMAIN table /\ ("Z" \o ToString(zone)) \in DOMAIN table[ToString(lb)]
    THEN table[ToString(lb)]["Z" \o ToString(zone)] ELSE 0

\* C7: lookupRate returns the entry of row w, column z for w <= 150 and
\* rate(150, z) * (w / 150) for w > 150; amazonLookupRate returns the entry of
\* row min(w, 150).
C7_RateAboveTable ==
    /\ Returned("lookupRate")
        => LET w == call.billableLb
               e == RateEntry(FedexRates, 150, call.zone)
           IN  IF w <= 150
               THEN Ret = <<RateEntry(FedexRates, w, call.zone), 1>>
               ELSE Ret[1] * 150 = e * w * Ret[2]
    /\ Returned("amazonLookupRate")
        => Ret = RateEntry(AmazonRates, IF call.billableLb < 150 THEN call.billableLb ELSE 150,
                           call.zone)

\* a FedEx rate above the table that is not a whole number of cents
C7_Witness ==
    /\ Returned("lookupRate")
    /\ call.billableLb > 150
    /\ Ret[2] > 1
    /\ Ret[1] > 0

\* the reason of the first hard limit an item violates
FirstLimitViolated(it) ==
    IF Longest(it) > 170 * 10 THEN "longest"
    ELSE IF NumCompare(ThreeSideSum(it), 200) > 0 THEN "threeSideSum"
    ELSE "weight"

\* a sequence without its i-th element
Without(seq, i) == [k \in 1..(Len(seq) - 1) |-> IF k < i THEN seq[k] ELSE seq[k + 1]]

\* the number of items with quantity > 0 among the first i
KeptUpTo(items, i) == Cardinality({k \in 1..i : items[k].qty > 0})

YamatoTotals(r) ==
    <<r.grandTotal, r.baseSubtotal, r.coolSubtotal, r.sameDaySubtotal, r.discountSubtotal>>

IntraprefHas(payment, size) == ToString(size) \in DOMAIN YamatoRatesIntrapref[payment]

\* the entry of the cash or cashless route table, 0 when there is none
RouteEntry(payment, origin, size, destination) ==
    LET t == IF payment = "cash" THEN YamatoRatesCash ELSE YamatoRatesCashless
    IN  IF origin \in DOMAIN t /\ ToString(size) \in DOMAIN t[origin]
           /\ destination \in DOMAIN t[origin][ToString(size)]
        THEN t[origin][ToString(size)][destination] ELSE 0

UsTotals(r) ==
    <<r.grandTotal, r.rateSubtotal, r.scSubtotal, r.residentialSubtotal, r.dasSubtotal>>

\* the items of a list that have a quantity > 0
Positive(items) == SelectSeq(items, LAMBDA it : it.qty > 0)

\* C10: in calcAll, amazonCalcAll and yamatoCalcAll an item of quantity 0 adds
\* nothing to the grand total or to a subtotal, and the lines of the result
\* have an entry for every input item.
C10_ZeroQuantityKept ==
    /\ Returned("calcAll")
        => /\ UsTotals(Ret) = UsTotals(FedexBatch(Positive(call.items), call.zone, call.settings))
           /\ Len(Ret.lines) = Len(call.items)
    /\ Returned("amazonCalcAll")
        => /\ UsTotals(Ret) = UsTotals(AmazonBatch(Positive(call.items), call.zone, call.settings))
           /\ Len(Ret.lines) = Len(call.items)
    /\ Returned("yamatoCalcAll")
        => /\ YamatoTotals(Ret) = YamatoTotals(YamatoBatch(Positive(call.items), call.settings))
           /\ Len(Ret.lines) = Len(call.items)

\* the band of the table holding the price, as a set of row indices
FuelBands(data, p) ==
    {i \in 1..Len(data.fuel_diesel_table) :
        data.fuel_diesel_table[i].min <= p /\ p < data.fuel_diesel_table[i].max}

\* the most steps of the extension rule that are looked at
MaxFuelSteps == 40

\* the percentage C11 states for price p
FuelPctStated(data, p) ==
    LET t == data.fuel_diesel_table
        first == t[1]
        last == t[Len(t)]
        dp == data.fuel_extension_rule.increment_price
        dq == data.fuel_extension_rule.increment_pct
        Below == {k \in 1..MaxFuelSteps : first.min - k * dp <= p}
        Above == {k \in 1..MaxFuelSteps : p < last.max + k * dp}
    IN  IF FuelBands(data, p) # {} THEN t[CHOOSE i \in FuelBands(data, p) : TRUE].pct
        ELSE IF p < first.min
             THEN LET k == CHOOSE k \in Below : \A j \in Below : k <= j
                  IN  IF first.pct - k * dq > 0 THEN first.pct - k * dq ELSE 0
        ELSE LET k == CHOOSE k \in Above : \A j \in Above : k <= j
             IN  last.pct + k * dq

\* C11: for every diesel price p >= 0, amazonGetFuelPct returns the pct of
\* the band holding p; below the first band max(0, first.pct - k * dq) with k
\* the least positive integer with first.min - k * dp <= p; at or above the
\* last band last.pct + k * dq with k the least positive integer with
\* p < last.max + k * dp; no price is a special case.
C11_FuelPctEveryPrice ==
    (/\ Returned("amazonGetFuelPct")
     /\ call.dieselPrice >= 0
     /\ "fuel_extension_rule" \in DOMAIN call.surchargeData)
        => Ret = FuelPctStated(call.surchargeData, call.dieselPrice)

\* C12: the fuel percentage returned for any diesel price is never negative,
\* a price far below the lowest band gives 0, and the fuel amount of an
\* Amazon line is never negative.
C12_FuelPctNotNegative ==
    /\ Returned("amazonGetFuelPct") => Ret >= 0
    /\ (/\ Returned("amazonGetFuelPct")
        /\ "fuel_extension_rule" \in DOMAIN call.surchargeData
        /\ call.dieselPrice # 0
        /\ call.dieselPrice < call.surchargeData.fuel_diesel_table[1].min
        /\ FuelExtendDown(call.surchargeData.fuel_diesel_table[1].min,
                          call.surchargeData.fuel_diesel_table[1].pct,
                          call.dieselPrice, call.surchargeData.fuel_extension_rule) < 0)
          => Ret = 0
    /\ Returned("amazonCalcLineItem") => (Ret.fuelPct >= 0 /\ Ret.fuelAmount >= 0)

\* a price above zero and below the table whose extension is below zero
C12_Witness ==
    /\ Returned("amazonGetFuelPct")
    /\ "fuel_extension_rule" \in DOMAIN call.surchargeData
    /\ call.dieselPrice > 0
    /\ call.dieselPrice < call.surchargeData.fuel_diesel_table[1].min
    /\ call.surchargeData.fuel_diesel_table[1].pct
         - 2 * call.surchargeData.fuel_extension_rule.increment_pct < 0
    /\ call.dieselPrice
         <= call.surchargeData.fuel_diesel_table[1].min
              - 2 * call.surchargeData.fuel_extension_rule.increment_price
    /\ Ret = 0

\* the cool service fee of the table for a size, 0 when it lists none
CoolFee(size) ==
    IF ToString(size) \in DOMAIN YamatoSurcharges.cool
    THEN YamatoSurcharges.cool[ToString(size)] ELSE 0

\* C13: on a line without hard-limit error: with no cool service the cool
\* surcharge is 0 and coolError false; with cool service and applied size
\* <= 120 the surcharge is the table amount and coolError false; with cool
\* service and applied size > 120 the line has coolError, no error, cool
\* surcharge 0 and the per-package total of the same line without cool
\* service.  A missing base rate does not set coolError.
C13_CoolService ==
    (Returned("yamatoCalcLineItem") /\ WithinYamatoLimits(call.item))
        => LET cool == call.settings.coolType # "none"
           IN  /\ ~Ret.error
               /\ ~cool => (Ret.coolSurcharge = 0 /\ ~Ret.coolError)
               /\ (cool /\ Ret.appliedSize <= 120)
                    => (Ret.coolSurcharge = CoolFee(Ret.appliedSize) /\ ~Ret.coolError)
               /\ (cool /\ Ret.appliedSize > 120)
                    => /\ Ret.coolError
                       /\ Ret.coolSurcharge = 0
                       /\ Ret.perPkgTotal
                            = YamatoLine(call.item,
                                         [call.settings EXCEPT !.coolType = "none"]).perPkgTotal
               /\ Ret.coolError <=> (cool /\ Ret.appliedSize > 120)

\* cool service asked for a size above 120 on a line that has a rate
C13_Witness ==
    /\ Returned("yamatoCalcLineItem")
    /\ call.settings.coolType = "chilled"
    /\ ~Ret.error
    /\ Ret.appliedSize = 140
    /\ Ret.coolError
    /\ Ret.baseRate > 0
    /\ Ret.perPkgTotal > 0

\* the configured amount of a discount key, 0 for a key that is not configured
DiscountAmount(key) ==
    IF key \in DOMAIN YamatoDiscounts THEN YamatoDiscounts[key].amount ELSE 0

RECURSIVE SumAmounts(_)
SumAmounts(keys) ==
    IF keys = {} THEN 0
    ELSE LET k == CHOOSE k \in keys : TRUE
         IN  DiscountAmount(k) + SumAmounts(keys \ {k})

\* the keys that count: dropoff is left out next to member_dropoff
Counted(keys) == IF "member_dropoff" \in keys THEN keys \ {"dropoff"} ELSE keys

SelectedSet(l) == {l[i] : i \in 1..Len(l)}

\* C14: the total of yamatoCalcDiscounts is the sum of the configured amounts
\* of the selected keys, dropoff left out whenever member_dropoff is selected
\* too; it depends on the set of keys only, not on their order.
C14_DiscountTotal ==
    Returned("yamatoCalcDiscounts")
        => Ret.total = SumAmounts(Counted(SelectedSet(call.selectedDiscounts)))

\* dropoff selected before member_dropoff, with another discount
C14_Witness ==
    /\ Returned("yamatoCalcDiscounts")
    /\ call.selectedDiscounts = <<"dropoff", "digital", "member_dropoff">>
    /\ Ret.total = DiscountAmount("member_dropoff") + DiscountAmount("digital")
    /\ DiscountAmount("dropoff") # 0

\* C15: the per-package total of every Yamato line is max(0, base rate +
\* cool surcharge + same-day surcharge + discount total), so it is never
\* negative, and neither are the line total (per-package total * quantity)
\* nor the grand total of a batch.
C15_YamatoTotalFloored ==
    /\ Returned("yamatoCalcLineItem")
        => LET sum == Ret.baseRate + Ret.coolSurcharge + Ret.sameDaySurcharge
                        + Ret.discountTotal
           IN  /\ Ret.perPkgTotal = IF sum > 0 THEN sum ELSE 0
               /\ Ret.perPkgTotal >= 0
               /\ Ret.lineTotal = Ret.perPkgTotal * call.item.qty
               /\ Ret.lineTotal >= 0
    /\ Returned("yamatoCalcAll")
        => /\ Ret.grandTotal >= 0
           /\ \A i \in 1..Len(Ret.lines) :
                 Ret.lines[i].perPkgTotal >= 0 /\ Ret.lines[i].lineTotal >= 0

\* a line without base rate whose discounts bring the sum below zero
C15_Witness ==
    /\ Returned("yamatoCalcLineItem")
    /\ ~Ret.error
    /\ call.item.qty > 0
    /\ Ret.baseRate + Ret.coolSurcharge + Ret.sameDaySurcharge + Ret.discountTotal < 0
    /\ Ret.perPkgTotal = 0

\* the configured same-day amount of a key, or the default when none is configured
SameDayConfigured(surcharges, key, default) ==
    IF "same_day" \in DOMAIN surcharges /\ key \in DOMAIN surcharges.same_day
    THEN surcharges.same_day[key] ELSE default

\* the same-day surcharge C16 states
SameDayStated(sameDay, origin, destination, surcharges) ==
    IF ~sameDay THEN 0
    ELSE IF origin = "okinawa" \/ destination = "okinawa"
         THEN SameDayConfigured(surcharges, "okinawa", 330)
    ELSE SameDayConfigured(surcharges, "standard", 550)

\* C16: the same-day surcharge is 0 when same-day is not requested; when
\* requested it is the okinawa amount (configured, default 330) if origin or
\* destination is okinawa and the standard amount (configured, default 550)
\* otherwise, whatever the size, weight or payment method of the line.
C16_SameDaySurcharge ==
    /\ Returned("yamatoGetSameDaySurcharge")
        => Ret = SameDayStated(call.sameDay, call.origin, call.destination, call.surcharges)
    /\ (Returned("yamatoCalcLineItem") /\ ~Ret.error)
        => Ret.sameDaySurcharge
             = SameDayStated(call.settings.sameDay, call.settings.origin,
                             call.settings.destination, YamatoSurcharges)

\* the item with its three sides in every order
SidePermutations(it) ==
    {[it EXCEPT !.L_cm = p[1], !.W_cm = p[2], !.H_cm = p[3]] :
        p \in {<<it.L_cm, it.W_cm, it.H_cm>>, <<it.L_cm, it.H_cm, it.W_cm>>,
               <<it.W_cm, it.L_cm, it.H_cm>>, <<it.W_cm, it.H_cm, it.L_cm>>,
               <<it.H_cm, it.L_cm, it.W_cm>>, <<it.H_cm, it.W_cm, it.L_cm>>}}

\* what C17 names of a Yamato size result
YamatoOutcome(r) ==
    IF r.error THEN <<TRUE, r.reason, r.threeSideSum>>
    ELSE <<FALSE, r.threeSideSum, r.appliedSize, r.sizeSource>>

\* C17: for every item and every order of its three sides, FedEx gives the
\* same surcharge type, reason and minimum (hence the same girth), the same
\* dimensional weight and the same billable weight; Amazon gives the same
\* surcharge type; Yamato gives the same three-side sum, error outcome,
\* applied size and size source.
C17_OrderIndependence ==
    /\ Returned("determineSurcharge")
        => \A p \in SidePermutations(call.item) :
              determineSurcharge(p.L_cm, p.W_cm, p.H_cm, p.weightKg, call.zone, FedexAmounts)
                = Ret
    /\ Returned("calcLineItem")
        => \A p \in SidePermutations(call.item) :
              LET r == calcLineItem(p, call.zone, call.settings.fuelPct,
                                    call.settings.isResidential, call.settings.dasTier,
                                    FedexRates, FedexSurcharges)
              IN  /\ r.dimLb = Ret.dimLb
                  /\ r.billableLb = Ret.billableLb
                  /\ r.scType = Ret.scType
    /\ Returned("amazonDetermineSurcharge")
        => \A p \in SidePermutations(call.item) :
              amazonDetermineSurcharge(p.L_cm, p.W_cm, p.H_cm, p.weightKg).type = Ret.type
    /\ Returned("yamatoCalcSize")
        => \A p \in SidePermutations(call.item) :
              YamatoOutcome(yamatoCalcSize(p.L_cm, p.W_cm, p.H_cm, p.weightKg))
                = YamatoOutcome(Ret)

ResidentialStated(isResidential, data) ==
    IF ~isResidential THEN 0
    ELSE IF "residential" \in DOMAIN data /\ "charge_per_pkg" \in DOMAIN data.residential
         THEN data.residential.charge_per_pkg
    ELSE 595

\* the DAS charge C19 states for FedEx: the sub-rate of the tier, 0 for a tier
\* without rates
FedexDasStated(dasTier, isResidential, data) ==
    IF dasTier \notin DOMAIN data.das THEN 0
    ELSE IF isResidential THEN data.das[dasTier].residential
    ELSE data.das[dasTier].commercial

\* the DAS charge C19 states for Amazon: the amount of the tier
AmazonDasStated(dasTier) ==
    IF dasTier \in DOMAIN AmazonSurcharges.das THEN AmazonSurcharges.das[dasTier] ELSE 0

\* the parts of a FedEx line that the residential flag leaves alone
ResidentialFrame(line) ==
    <<line.actualLb, line.dimLb, line.billableLb, line.baseRate, line.fuelAmount,
      line.rateSubtotal, line.scType, line.scReason, line.scAmount>>

Composed(base, pct, den, line) ==
    RAdd(RAdd(base, RMulFrac(base, pct, den)),
         RInt(line.scAmount + line.residentialCharge + line.dasCharge))

\* a line reports the composition of C20, the base rate being base and the
\* fuel percentage pct / den of 100
ComposedLine(line, base, pct, den) ==
    /\ line.baseRate = Round2Cents(base)
    /\ line.fuelAmount = Round2Cents(RMulFrac(base, pct, den))
    /\ line.perPkgTotal = Round2Cents(Composed(base, pct, den, line))
    /\ line.lineTotal = Round2Cents(RMulFrac(Composed(base, pct, den, line), line.qty, 1))

\* the line totals of the FedEx lines of the items with quantity > 0, summed
RECURSIVE FedexLineTotals(_, _, _)
FedexLineTotals(items, zone, st) ==
    IF items = <<>> THEN 0
    ELSE (IF Head(items).qty > 0
          THEN calcLineItem(Head(items), zone, st.fuelPct, st.isResidential, st.dasTier,
                            FedexRates, FedexSurcharges).lineTotal
          ELSE 0) + FedexLineTotals(Tail(items), zone, st)

\* the same for the Amazon lines
RECURSIVE AmazonLineTotals(_, _, _)
AmazonLineTotals(items, zone, st) ==
    IF items = <<>> THEN 0
    ELSE (IF Head(items).qty > 0
          THEN amazonCalcLineItem(Head(items), zone, st.dieselPrice, st.dasTier,
                                  AmazonRates, AmazonSurcharges).lineTotal
          ELSE 0) + AmazonLineTotals(Tail(items), zone, st)

\* C20: on every FedEx and Amazon line the per-package total is, before
\* rounding, base rate + base rate * fuelPct / 100 + surcharge amount +
\* residential charge + DAS charge (fuel on the base rate only), and the line
\* total is that per-package total * quantity; the grand total of a batch is
\* the sum of the line totals of its items with quantity > 0.
C20_LineComposition ==
    /\ Returned("calcLineItem")
        => ComposedLine(Ret, lookupRate(Ret.billableLb, call.zone, FedexRates),
                        call.settings.fuelPct, 100)
    /\ Returned("amazonCalcLineItem")
        => ComposedLine(Ret, RInt(amazonLookupRate(Ret.billableLb, call.zone, AmazonRates)),
                        Ret.fuelPct, 100 * 100)
    /\ Returned("calcAll")
        => Ret.grandTotal = FedexLineTotals(call.items, call.zone, call.settings)
    /\ Returned("amazonCalcAll")
        => Ret.grandTotal = AmazonLineTotals(call.items, call.zone, call.settings)

\* a FedEx line of two packages with fuel, surcharge, residential fee and DAS,
\* whose line total is not twice its rounded per-package total
C20_Witness ==
    /\ Returned("calcLineItem")
    /\ call.item.qty = 2
    /\ call.settings.fuelPct > 0
    /\ Ret.scAmount > 0
    /\ Ret.residentialCharge > 0
    /\ Ret.dasCharge > 0
    /\ Ret.lineTotal # 2 * Ret.perPkgTotal

\* the weight row and the zone column a FedEx or Amazon lookup reads
RateRow(c) == ToString(IF c.billableLb > 150 THEN 150 ELSE c.billableLb)

RateCellAbsent(c, rateTable) ==
    ~Has(rateTable, RateRow(c)) \/ ~Has(rateTable[RateRow(c)], ZoneKey(c.zone))

RouteTableOf(c) == IF c.payment = "cash" THEN YamatoRatesCash ELSE YamatoRatesCashless

RouteCellAbsent(c) ==
    \/ ~Has(RouteTableOf(c), c.origin)
    \/ ~Has(RouteTableOf(c)[c.origin], ToString(c.appliedSize))
    \/ ~Has(RouteTableOf(c)[c.origin][ToString(c.appliedSize)], c.destination)

IntraprefAsked(c) == c.samePrefecture /\ c.origin # "okinawa"

IntraprefCellAbsent(c) ==
    \/ ~Has(c.ratesIntrapref, c.payment)
    \/ ~Has(c.ratesIntrapref[c.payment], ToString(c.appliedSize))

\* C21: a lookup that misses its table raises nothing and gives the rate 0:
\* lookupRate and amazonLookupRate when the weight row or the zone column is
\* absent, yamatoLookupRate when the route table lacks the origin, the size or
\* the destination, or the intra-prefecture table lacks the payment method or
\* the size.
C21_LookupMissIsZero ==
    /\ Returned("lookupRate") /\ RateCellAbsent(call, FedexRates) => Ret = RInt(0)
    /\ Returned("amazonLookupRate") /\ RateCellAbsent(call, AmazonRates) => Ret = 0
    /\ Returned("yamatoLookupRate")
            /\ (IF IntraprefAsked(call) THEN IntraprefCellAbsent(call)
                ELSE RouteCellAbsent(call))
        => ~Has(Ret, "throws") /\ Ret.rate = 0

\* the key of a surcharge type in the amounts of surcharges.json
AmountKey(scType) ==
    IF scType = "AHS-Wgt" THEN "AHS-Weight"
    ELSE IF scType = "Unauth" THEN "Unauthorized" ELSE scType

\* no FedEx amount for the zone and the type of the returned line
FedexAmountAbsent(c, line) ==
    \/ ~Has(c.surchargeData.amounts, ToString(c.zone))
    \/ ~Has(c.surchargeData.amounts[ToString(c.zone)], AmountKey(line.scType))

\* the zone group of the call's zone, when the map has one
ZoneGroupOf(c) == c.surchargeData.zone_group_map[ToString(c.zone)]

\* no Amazon amount for the group of a mapped zone and the type of the line
AmazonAmountAbsent(c, line) ==
    /\ Has(c.surchargeData.zone_group_map, ToString(c.zone))
    /\ \/ ~Has(c.surchargeData.amounts, ZoneGroupOf(c))
       \/ ~Has(c.surchargeData.amounts[ZoneGroupOf(c)], AmountKey(line.scType))

\* a DAS tier is asked for and the data has no das table or no entry for it
DasEntryAbsent(c) ==
    /\ c.settings.dasTier # "None"
    /\ \/ ~Has(c.surchargeData, "das")
       \/ ~Has(c.surchargeData.das, c.settings.dasTier)

\* C22: malformed configuration gives a zero charge and fails nothing: a
\* zone or zone group without a surcharge amount, a DAS tier without an entry
\* and a missing DAS table each give 0 on the line, no call raises, and the
\* FedEx and Amazon batch calls return a line for every item of positive qty.
C22_MalformedConfigIsZero ==
    /\ Returned("calcLineItem") /\ Has(call, "surchargeData") =>
            /\ ~Has(Ret, "throws")
            /\ FedexAmountAbsent(call, Ret) => Ret.scAmount = 0
            /\ DasEntryAbsent(call) => Ret.dasCharge = 0
    /\ Returned("amazonCalcLineItem") /\ Has(call, "surchargeData") =>
            /\ ~Has(Ret, "throws")
            /\ AmazonAmountAbsent(call, Ret) => Ret.scAmount = 0
            /\ DasEntryAbsent(call) => Ret.dasCharge = 0
    /\ (Returned("calcAll") \/ Returned("amazonCalcAll")) /\ Has(call, "surchargeData") =>
            /\ ~Has(Ret, "throws")
            /\ Len(Ret.lines) = Len(FilterQty(call.items))

\* C28: the grand total of a batch is the sum of its reported category
\* subtotals: rate, surcharge, residential and DAS for FedEx and Amazon; base,
\* cool, same-day and discount for Yamato.
C28_GrandTotalIsSumOfSubtotals ==
    /\ Returned("calcAll") \/ Returned("amazonCalcAll") =>
            Ret.grandTotal = Ret.rateSubtotal + Ret.scSubtotal
                             + Ret.residentialSubtotal + Ret.dasSubtotal
    /\ Returned("yamatoCalcAll") =>
            Ret.grandTotal = Ret.baseSubtotal + Ret.coolSubtotal
                             + Ret.sameDaySubtotal + Ret.discountSubtotal

\* base rate + fuel of one package of a line, unrounded, in cents
ExactRate(c, line) ==
    IF c.fn = "calcAll"
    THEN RAdd(lookupRate(line.billableLb, c.zone, FedexRates),
              RMulFrac(lookupRate(line.billableLb, c.zone, FedexRates),
                       c.settings.fuelPct, 100))
    ELSE RAdd(RInt(amazonLookupRate(line.billableLb, c.zone, AmazonRates)),
              RMulFrac(RInt(amazonLookupRate(line.billableLb, c.zone, AmazonRates)),
                       line.fuelPct, 100 * 100))

\* the total of one package of a line, unrounded
ExactPerPkg(c, line) ==
    RAdd(ExactRate(c, line), RInt(line.scAmount + line.residentialCharge + line.dasCharge))

RECURSIVE RSum(_)
RSum(terms) == IF terms = <<>> THEN RInt(0) ELSE RAdd(Head(terms), RSum(Tail(terms)))

\* C24: rounding happens at the output boundary only: in a FedEx or Amazon
\* batch the grand total is round2 of the sum of the unrounded per-package
\* totals * qty and each subtotal is round2 of the sum of its unrounded
\* component * qty; no rounded line value feeds a batch sum.
C24_RoundingAtBoundaryOnly ==
    Returned("calcAll") \/ Returned("amazonCalcAll") =>
        /\ Ret.grandTotal = Round2Cents(RSum([i \in 1..Len(Ret.lines) |->
                RMulFrac(ExactPerPkg(call, Ret.lines[i]), Ret.lines[i].qty, 1)]))
        /\ Ret.rateSubtotal = Round2Cents(RSum([i \in 1..Len(Ret.lines) |->
                RMulFrac(ExactRate(call, Ret.lines[i]), Ret.lines[i].qty, 1)]))
        /\ Ret.scSubtotal = Reduce([i \in 1..Len(Ret.lines) |->
                Ret.lines[i].scAmount * Ret.lines[i].qty])
        /\ Ret.residentialSubtotal = Reduce([i \in 1..Len(Ret.lines) |->
                Ret.lines[i].residentialCharge * Ret.lines[i].qty])
        /\ Ret.dasSubtotal = Reduce([i \in 1..Len(Ret.lines) |->
                Ret.lines[i].dasCharge * Ret.lines[i].qty])

\* the increment_price of the call's extension rule
FuelIncrementOf(c) == c.surchargeData.fuel_extension_rule.increment_price

\* the price is below the first band or at or above the last one's max
OutsideFuelTable(c) ==
    LET table == c.surchargeData.fuel_diesel_table
    IN  FuelPriceOf(c) < table[1].min \/ FuelPriceOf(c) >= table[Len(table)].max

\* the call runs amazonGetFuelPct at least once
RunsFuelPct(c) == c.fn = "amazonGetFuelPct" \/ FilterQty(c.items) # <<>>

\* C30: amazonGetFuelPct terminates for every diesel price when the
\* increment_price of the extension rule is positive, and only then: with a
\* zero or negative increment_price and a price outside the table the
\* extension loop never ends and neither the function nor the batch call
\* that runs it returns.
C30_TerminatesIffPositiveIncrement ==
    /\ FuelIncrementOf(call) > 0 => <>(FuelPctReturned \/ ret # <<>>)
    /\ [](FuelIncrementOf(call) <= 0 /\ OutsideFuelTable(call) /\ RunsFuelPct(call)
            => ~FuelPctReturned /\ ret = <<>>)

(***************************************************************************)
(* The scenario store of js/storage.js.  scenarios is the list that        *)
(* getScenarios parses out of localStorage; a stored state is a JSON value *)
(* the store does not look into, here a number.                            *)
(***************************************************************************)
MaxScenarioNames == 2
MaxScenarioStates == 2
MaxSaveTimes == 2

ScenarioNames == {ToString(i) : i \in 1..MaxScenarioNames}
ScenarioStates == 1..MaxScenarioStates
SaveTimes == 1..MaxSaveTimes

\* scenarios.findIndex(s => s.name === name), counted from 1, 0 when none
FindIndex(list, name) ==
    IF \E i \in 1..Len(list) : list[i].name = name
    THEN CHOOSE i \in 1..Len(list) :
            /\ list[i].name = name
            /\ \A j \in 1..(i - 1) : list[j].name # name
    ELSE 0

\* saveScenario that pushes whether or not the name exists
saveScenarioPushing(list, name, st, now) ==
    Append(list, [name |-> name, state |-> st, savedAt |-> now])

saveScenario(list, name, st, now) ==
    LET existing == FindIndex(list, name)
        entry == [name |-> name, state |-> st, savedAt |-> now]
    IN IF existing > 0 THEN [list EXCEPT ![existing] = entry]
       ELSE Append(list, entry)

deleteScenario(list, name) ==
    LET Kept(sc) == sc.name # name
    IN SelectSeq(list, Kept)

loadScenario(list, name) ==
    LET found == FindIndex(list, name)
    IN IF found > 0 THEN list[found].state ELSE NULL

GetScenarios ==
    /\ call' = [fn |-> "getScenarios"]
    /\ ret' = <<scenarios>>
    /\ UNCHANGED <<loop, scenarios, url, page>>

SaveScenario ==
    /\ Len(scenarios) <= MaxScenarioNames
    /\ \E name \in ScenarioNames, st \in ScenarioStates, now \in SaveTimes :
        /\ call' = [fn |-> "saveScenario", name |-> name, state |-> st, now |-> now]
        /\ scenarios' = saveScenario(scenarios, name, st, now)
        /\ ret' = <<scenarios'>>
    /\ UNCHANGED <<loop, url, page>>

DeleteScenario ==
    /\ \E name \in ScenarioNames :
        /\ call' = [fn |-> "deleteScenario", name |-> name]
        /\ scenarios' = deleteScenario(scenarios, name)
        /\ ret' = <<scenarios'>>
    /\ UNCHANGED <<loop, url, page>>

LoadScenario ==
    /\ \E name \in ScenarioNames :
        /\ call' = [fn |-> "loadScenario", name |-> name]
        /\ ret' = <<loadScenario(scenarios, name)>>
    /\ UNCHANGED <<loop, scenarios, url, page>>

\* a fresh store, of which getScenarios returned the empty list
InitStorage ==
    /\ call = [fn |-> "getScenarios"]
    /\ ret = <<<<>>>>
    /\ OthersIdle

NextStorage ==
    \/ GetScenarios
    \/ SaveScenario
    \/ DeleteScenario
    \/ LoadScenario

SpecStorage == InitStorage /\ [][NextStorage]_vars

\* the states stored under a name, in the order of the list
StoredUnder(list, name) ==
    LET Named(sc) == sc.name = name
        named == SelectSeq(list, Named)
    IN [i \in 1..Len(named) |-> named[i].state]

\* C29: the store holds at most one scenario per name; after a save under a
\* name exactly the saved state is stored under it, after a delete nothing is,
\* and neither touches what is stored under another name; loadScenario returns
\* the state stored under the name, which is the one of the most recent save
\* not followed by a delete, or null when nothing is stored under it, and
\* leaves the store alone
C29_ScenarioStore ==
    [][/\ \A name \in ScenarioNames : Len(StoredUnder(scenarios', name)) <= 1
       /\ call'.fn = "saveScenario" =>
            /\ StoredUnder(scenarios', call'.name) = <<call'.state>>
            /\ \A other \in ScenarioNames \ {call'.name} :
                StoredUnder(scenarios', other) = StoredUnder(scenarios, other)
       /\ call'.fn = "deleteScenario" =>
            /\ StoredUnder(scenarios', call'.name) = <<>>
            /\ \A other \in ScenarioNames \ {call'.name} :
                StoredUnder(scenarios', other) = StoredUnder(scenarios, other)
       /\ call'.fn = "loadScenario" =>
            /\ scenarios' = scenarios
            /\ ret' = IF StoredUnder(scenarios, call'.name) = <<>> THEN <<NULL>>
                      ELSE <<StoredUnder(scenarios, call'.name)[1]>>
       /\ call'.fn = "getScenarios" => scenarios' = scenarios]_vars

\* two names are stored and loadScenario returned the state stored under the
\* first of them
C29_Witness ==
    /\ call.fn = "loadScenario"
    /\ Len(scenarios) = 2
    /\ scenarios[1].name = call.name
    /\ scenarios[1].savedAt = 2
    /\ scenarios[1].state = 2
    /\ ret = <<2>>

(***************************************************************************)
(* The saved states of js/ui.js and their migration.  A state is the       *)
(* object of UI's variable state, its fuelPct in whole percent, its        *)
(* dieselPrice in cents per gallon, its items the rows with their ids (the *)
(* other fields of a row take no part in what is modelled here).  A field  *)
(* that is null or undefined is a field the record does not have.  What    *)
(* JSON.stringify and JSON.parse do to such a state (getCurrentState, the  *)
(* URL, the scenario store, the exported file) is to copy it: it holds     *)
(* finite numbers, strings, booleans and arrays of such objects only.      *)
(***************************************************************************)
Put(obj, key, v) == [k \in DOMAIN obj \cup {key} |-> IF k = key THEN v ELSE obj[k]]

fedexToUnified ==
    [None |-> "None", Base |-> "Delivery Area", Extended |-> "Extended",
     Remote |-> "Remote", Alaska |-> "None", Hawaii |-> "None",
     Intra_Hawaii |-> "None"]

\* the key of a FedEx tier in fedexToUnified ('Intra-Hawaii' is no TLA+ field name)
TierKey(tier) == IF tier = "Intra-Hawaii" THEN "Intra_Hawaii" ELSE tier

\* the body of the DAS conversion: the FedEx tier looked up in fedexToUnified
migrateDasTier(s) ==
    LET oldFedex == IF Has(s, "dasTier") /\ s.dasTier # "" THEN s.dasTier ELSE "None"
        unified == IF Has(fedexToUnified, TierKey(oldFedex))
                   THEN fedexToUnified[TierKey(oldFedex)] ELSE "None"
    IN Lacking(Put(s, "dasTier", unified), "dasTierAmazon")

\* if (s.dasTierAmazon != null || s.dasTier != null) { ... }
migrateDas(s) ==
    IF Has(s, "dasTierAmazon") \/ Has(s, "dasTier") THEN migrateDasTier(s) ELSE s

migrateState(old) ==
    LET s1 == Lacking(old, "carrier")
        s2 == IF Has(s1, "deliveryType")
              THEN Lacking(Put(s1, "isResidential", s1.deliveryType = "residential"),
                           "deliveryType")
              ELSE s1
        s3 == IF ~Has(s2, "isResidential") THEN Put(s2, "isResidential", FALSE) ELSE s2
        s4 == migrateDas(s3)
        s5 == IF ~Has(s4, "zone") \/ s4.zone = 0 THEN Put(s4, "zone", 2) ELSE s4
        s6 == IF ~Has(s5, "fuelPct") THEN Put(s5, "fuelPct", 0) ELSE s5
        s7 == IF ~Has(s6, "dieselPrice") THEN Put(s6, "dieselPrice", 350) ELSE s6
    IN IF ~Has(s7, "dasTier") \/ s7.dasTier = "" THEN Put(s7, "dasTier", "None") ELSE s7

\* the keys of DAS_TO_FEDEX and DAS_TO_AMAZON: the tiers state.dasTier takes
UnifiedDasTiers == {"None", "Delivery Area", "Extended", "Remote"}

\* the rows of a state with the given ids
Rows(ids) == [i \in 1..Len(ids) |-> [id |-> ids[i]]]

\* states as the application builds them (resetToDefaults and the handlers of
\* the settings)
AppStates ==
    {[zone |-> z, fuelPct |-> f, dieselPrice |-> p, isResidential |-> r,
      dasTier |-> d, unitDim |-> "mm", unitWeight |-> "kg", items |-> Rows(ids)] :
        z \in {2, 5, 8}, f \in {0, 15}, p \in {350, 410}, r \in BOOLEAN,
        d \in UnifiedDasTiers, ids \in {<<>>, <<0, 1>>}}

\* states as saved by the earlier versions of the page: a carrier, a delivery
\* type, a FedEx tier and an Amazon tier
OldStates ==
    {[carrier |-> "fedex", zone |-> 5, fuelPct |-> 15, deliveryType |-> t,
      dasTier |-> d, dasTierAmazon |-> "None", items |-> Rows(<<0>>)] :
        t \in {"residential", "commercial"},
        d \in {"None", "Base", "Extended", "Remote", "Alaska", "Hawaii",
               "Intra-Hawaii"}}
    \cup {[items |-> Rows(<<0>>)], [zone |-> 0, dasTier |-> "", items |-> <<>>]}

MigrateCalls == {[fn |-> "migrateState", old |-> s] : s \in AppStates \cup OldStates}

MigrateState ==
    /\ Calling("migrateState")
    /\ ret' = <<migrateState(call.old)>>
    /\ UNCHANGED <<call, others>>

InitMigrate ==
    /\ call \in MigrateCalls
    /\ ret = <<>>
    /\ OthersIdle

NextMigrate == MigrateState

SpecMigrate == InitMigrate /\ [][NextMigrate]_vars

\* a state with the eight fields of UI's state, a zone of the selector, and one
\* of the unified DAS tiers
AppProduced(s) ==
    /\ DOMAIN s = {"zone", "fuelPct", "dieselPrice", "isResidential", "dasTier",
                   "unitDim", "unitWeight", "items"}
    /\ s.zone >= 2
    /\ s.dasTier \in {"None", "Delivery Area", "Extended", "Remote"}

\* C27: migrateState returns a state the application produced as it was given
\* (every zone, fuel percentage, diesel price, residential flag and unified DAS
\* tier), and migrating its result once more changes nothing
C27_MigrateRoundTrip ==
    Returned("migrateState") =>
        /\ AppProduced(call.old) => ret[1] = call.old
        /\ migrateState(ret[1]) = ret[1]

(***************************************************************************)
(* The page: UI.init (js/ui.js) and YamatoUI.init (js/calculator.js) with  *)
(* their two awaited loads, and the handlers UI.init binds.  A handler is  *)
(* one step (the page's JavaScript runs a handler to its end); the         *)
(* continuation after an await is a step of its own.  Of the engines the   *)
(* page records which were invoked.  DataLoader.loadBoth and               *)
(* DataLoader.loadYamato are not in js/data-loader.js; each await of them  *)
(* either yields the loaded data or throws.                                *)
(***************************************************************************)
NDefaultItems == 2
MaxRows == 2
MaxItemId == 3

\* what loadBoth resolves to, as far as the page's state depends on it:
\* fedex.defaults with its items
FedexLoaded == [defaults |-> [zone |-> 2, fuel_pct |-> 0, items |-> NDefaultItems]]

\* what loadYamato resolves to
YamatoLoaded == [defaults |-> [origin |-> "kanto"]]

\* items.map((item, i) => ({id: i, ...}))
RowsOfDefaults(n) == Rows([i \in 1..n |-> i - 1])

\* the state resetToDefaults assigns
DefaultState(data) ==
    [zone |-> data.defaults.zone, fuelPct |-> data.defaults.fuel_pct,
     dieselPrice |-> 350, isResidential |-> FALSE, dasTier |-> "None",
     unitDim |-> "mm", unitWeight |-> "kg",
     items |-> RowsOfDefaults(data.defaults.items)]

\* YamatoUI.recalculateWithItems without its guard on data
recalculateWithItemsUnguarded(data) == {"yamatoCalcAll"}

\* YamatoUI.recalculateWithItems: the engines it invokes
recalculateWithItems(data) ==
    IF data = NoObj THEN {} ELSE {"yamatoCalcAll"}

\* UI.recalculate: the engines it invokes; reading state.items or
\* fedexData.rates of null throws before any engine is called
recalculate(st, fdata, ydata) ==
    IF st = NoObj \/ fdata = NoObj THEN {}
    ELSE {"calcAll", "amazonCalcAll"} \cup recalculateWithItems(ydata)

\* the handlers are bound (bindEvents) and the rows rendered
Bound == pc \in {"loadingYamato", "ready"}

\* state.items.find(i => i.id === id), as an index, 0 when none
FindRow(items, id) ==
    IF \E i \in 1..Len(items) : items[i].id = id
    THEN CHOOSE i \in 1..Len(items) :
            /\ items[i].id = id
            /\ \A j \in 1..(i - 1) : items[j].id # id
    ELSE 0

\* the ids of the rows on the page
RowIds == IF state = NoObj THEN {} ELSE {state.items[i].id : i \in 1..Len(state.items)}

\* DOMContentLoaded: UI.init starts, on a fresh page or after a reload
PageLoad ==
    /\ pc' = "loadingBoth"
    /\ fedexData' = NoObj
    /\ yamatoData' = NoObj
    /\ state' = NoObj
    /\ itemIdCounter' = 0
    /\ invoked' = {}
    /\ UNCHANGED <<call, ret, loop, scenarios, url>>

\* the await of loadBoth throws: UI.init returns
LoadBothFails ==
    /\ pc = "loadingBoth"
    /\ pc' = "failed"
    /\ UNCHANGED <<call, ret, loop, scenarios, url, fedexData, yamatoData, state,
                   itemIdCounter, invoked>>

\* loadBoth resolves: UI.init runs on to the await of YamatoUI.init
LoadBothResolves ==
    /\ pc = "loadingBoth"
    /\ fedexData' = FedexLoaded
    /\ state' = IF url # NoObj THEN migrateState(url) ELSE DefaultState(FedexLoaded)
    /\ itemIdCounter' = Len(state'.items)
    /\ invoked' = invoked \cup recalculate(state', fedexData', yamatoData)
    /\ pc' = "loadingYamato"
    /\ UNCHANGED <<call, ret, loop, scenarios, url, yamatoData>>

\* loadYamato resolves: YamatoUI.init finishes and UI.init recalculates
LoadYamatoResolves ==
    /\ pc = "loadingYamato"
    /\ yamatoData' = YamatoLoaded
    /\ invoked' = invoked \cup recalculateWithItems(yamatoData')
    /\ pc' = "ready"
    /\ UNCHANGED <<call, ret, loop, scenarios, url, fedexData, state, itemIdCounter>>

\* the await of loadYamato throws: YamatoUI.init returns, UI.init recalculates
LoadYamatoFails ==
    /\ pc = "loadingYamato"
    /\ invoked' = invoked \cup recalculateWithItems(yamatoData)
    /\ pc' = "ready"
    /\ UNCHANGED <<call, ret, loop, scenarios, url, fedexData, yamatoData, state,
                   itemIdCounter>>

\* what a handler does after it has assigned the items and the counter:
\* recalculate, and updateURL where the handler calls it
Handled(items, counter, saves) ==
    /\ state' = [state EXCEPT !.items = items]
    /\ itemIdCounter' = counter
    /\ invoked' = invoked \cup recalculate(state', fedexData, yamatoData)
    /\ url' = IF saves THEN state' ELSE url
    /\ UNCHANGED <<call, ret, loop, scenarios, pc, fedexData, yamatoData>>

AddRow ==
    /\ Bound
    /\ Len(state.items) < MaxRows
    /\ itemIdCounter < MaxItemId
    /\ Handled(Append(state.items, [id |-> itemIdCounter]), itemIdCounter + 1, FALSE)

DeleteRow ==
    /\ Bound
    /\ \E id \in RowIds :
        LET Kept(row) == row.id # id
        IN Handled(SelectSeq(state.items, Kept), itemIdCounter, TRUE)

DuplicateRow ==
    /\ Bound
    /\ Len(state.items) < MaxRows
    /\ itemIdCounter < MaxItemId
    /\ \E id \in RowIds :
        LET idx == FindRow(state.items, id)
            clone == [state.items[idx] EXCEPT !.id = itemIdCounter]
        IN Handled(SubSeq(state.items, 1, idx) \o <<clone>>
                       \o SubSeq(state.items, idx + 1, Len(state.items)),
                   itemIdCounter + 1, TRUE)

\* a set button: the items of a set of the defaults, of all of them for 'all'
LoadSet ==
    /\ Bound
    /\ \E n \in 1..fedexData.defaults.items :
        Handled(RowsOfDefaults(n), n, FALSE)

\* btn-reset: resetToDefaults, recalculate, updateURL
Reset ==
    /\ Bound
    /\ state' = DefaultState(fedexData)
    /\ itemIdCounter' = Len(state'.items)
    /\ invoked' = invoked \cup recalculate(state', fedexData, yamatoData)
    /\ url' = state'
    /\ UNCHANGED <<call, ret, loop, scenarios, pc, fedexData, yamatoData>>

\* state = migrateState(loaded); itemIdCounter = state.items.length;
\* recalculate(); updateURL(): the end of doLoad and of the import handler
Loaded(loaded) ==
    /\ state' = migrateState(loaded)
    /\ itemIdCounter' = Len(state'.items)
    /\ invoked' = invoked \cup recalculate(state', fedexData, yamatoData)
    /\ url' = state'
    /\ UNCHANGED <<call, ret, loop, scenarios, pc, fedexData, yamatoData>>

\* the name typed into the save modal
PageScenarioNames == {"1"}

\* doSave, the clock at 1
DoSave ==
    /\ Bound
    /\ \E name \in PageScenarioNames :
        scenarios' = saveScenario(scenarios, name, state, 1)
    /\ UNCHANGED <<call, ret, loop, url, page>>

\* a click on a scenario of the load modal, which lists the stored ones
DoLoad ==
    /\ Bound
    /\ \E name \in PageScenarioNames :
        /\ FindIndex(scenarios, name) > 0
        /\ Loaded(loadScenario(scenarios, name))

DoDelete ==
    /\ Bound
    /\ \E name \in PageScenarioNames :
        /\ FindIndex(scenarios, name) > 0
        /\ scenarios' = deleteScenario(scenarios, name)
    /\ UNCHANGED <<call, ret, loop, url, page>>

\* the import of a file the page exported: its state then was one that is
\* stored as a scenario or in the URL now
ImportJSON ==
    /\ Bound
    /\ \E file \in {scenarios[i].state : i \in 1..Len(scenarios)}
                    \cup (IF url = NoObj THEN {} ELSE {url}) :
        Loaded(file)

\* a change of a setting of the Yamato tab, whose handlers YamatoUI.init binds
\* once its data is loaded
YamatoSettingChange ==
    /\ yamatoData # NoObj
    /\ invoked' = invoked \cup recalculateWithItems(yamatoData)
    /\ UNCHANGED <<call, ret, loop, scenarios, url, pc, fedexData, yamatoData,
                   state, itemIdCounter>>

InitUi ==
    /\ call = [fn |-> "UI.init"]
    /\ ret = <<>>
    /\ OthersIdle

NextUi ==
    \/ PageLoad
    \/ LoadBothFails
    \/ LoadBothResolves
    \/ LoadYamatoResolves
    \/ LoadYamatoFails
    \/ AddRow
    \/ DeleteRow
    \/ DuplicateRow
    \/ LoadSet
    \/ Reset
    \/ DoSave
    \/ DoLoad
    \/ DoDelete
    \/ ImportJSON
    \/ YamatoSettingChange

SpecUi == InitUi /\ [][NextUi]_vars

\* C26: no two rows of the page have the same id
C26_ItemIdsUnique ==
    state # NoObj =>
        \A i, j \in 1..Len(state.items) :
            state.items[i].id = state.items[j].id => i = j

\* C25: calcAll and amazonCalcAll have been invoked only if the FedEx and
\* Amazon data is loaded, yamatoCalcAll only if the Yamato data is loaded; after
\* a failed load of both no engine is invoked, after a failed Yamato load
\* yamatoCalcAll is not
C25_EnginesAfterLoad ==
    /\ "calcAll" \in invoked \/ "amazonCalcAll" \in invoked => fedexData = FedexLoaded
    /\ "yamatoCalcAll" \in invoked => yamatoData = YamatoLoaded
    /\ pc \in {"loadingBoth", "failed"} => invoked = {}

\* the FedEx and Amazon engines ran, and a handler of the rows recalculated,
\* while the Yamato load was still awaited: yamatoCalcAll was not reached
C25_Witness ==
    /\ pc = "loadingYamato"
    /\ invoked = {"calcAll", "amazonCalcAll"}
    /\ itemIdCounter > Len(state.items)

====
